---- MODULE Spec2Model ----
(***************************************************************************)
(* A model of the AICrawler capture pipeline:                              *)
(*   - AsyncWebCrawler.arun / AsyncPlaywrightStrategy.crawl : one capture  *)
(*     session, stage by stage, with Python's exception flow (SpecCrawl);  *)
(*   - BrowserManager.start / close and AsyncWebCrawler.start / close as   *)
(*     cooperative tasks suspended at their awaits (SpecBM, SpecBMSeq);    *)
(*   - AsyncWebCrawler.arun_many : the gather fan-out (SpecMany).          *)
(***************************************************************************)
EXTENDS Integers, Sequences, FiniteSets, TLC

(***************************************************************************)
(* Bounds of the model.                                                    *)
(***************************************************************************)
\* at most this many optional toggles are switched on in one configuration
MaxToggles == 3
\* at most this many network events / console entries arrive in a session
MaxEvents == 1
\* at most this many download events arrive in a session
MaxDownloads == 1

VARIABLES
  \* ---- one capture session: inputs
  url,                  \* [scheme, is_direct_download_url]
  config,               \* the run configuration's toggles (+ accept_downloads)
  check_robots_txt,     \* the attribute arun reads from the configuration
  \* ---- control
  pc,                   \* position inside arun / crawl
  exc,                  \* the exception in flight ("none" when there is none)
  ret,                  \* the AsyncCrawlResponse being returned by crawl ({} = none)
  \* ---- crawl's local variables
  response,             \* {} = None, {s} = a response with status s
  js_execution_result,
  captured_requests,
  captured_console,
  screenshot_data,
  mhtml_data,
  ssl_cert,
  final_html,
  final_status_code,
  \* ---- the strategy's and the page's state
  downloaded_files,     \* self._downloaded_files
  download_completed_event,
  downloads,            \* [started, inflight]: download events of the page
  listeners,            \* the events a handler is attached to on the page
  resources,            \* [context, page, page_closed, context_closed]
  \* ---- arun's result and the session's history
  crawl_result,         \* the CrawlResult arun returned ({} = none)
  history,              \* what happened: navigation outcome, failures, ...
  \* ---- BrowserManager / AsyncWebCrawler lifecycle
  bm,
  \* ---- arun_many
  many,
  \* ---- the strategy object shared by concurrent sessions
  strategy,
  \* ---- a relevance filter, its input HTML and the outcomes of its calls
  filter,
  \* ---- one call of a helper coroutine of the strategy, in progress
  helper

crawlVars == << url, config, check_robots_txt, pc, exc, ret, response,
                js_execution_result, captured_requests, captured_console,
                screenshot_data, mhtml_data, ssl_cert, final_html,
                final_status_code, downloaded_files, download_completed_event,
                downloads, listeners, resources, crawl_result, history >>

\* the state of the models that stand beside the single session
extra == << strategy, filter, helper >>

vars == << crawlVars, bm, many, extra >>

(***************************************************************************)
(* Optional values: None is the empty set, a present value x is {x}.       *)
(***************************************************************************)
None == {}
Some(x) == {x}
The(o) == CHOOSE x \in o : TRUE

(***************************************************************************)
(* CrawlerRunConfig / BrowserConfig: the toggles that steer crawl().       *)
(***************************************************************************)
Toggles == { "accept_downloads", "override_navigator", "simulate_user",
             "fetch_ssl_certificate", "js_code", "remove_overlay_elements",
             "wait_for", "process_iframes", "capture_mhtml", "screenshot",
             "capture_network_requests", "capture_console_messages" }

\* CrawlerRunConfig() and BrowserConfig(): every toggle off
DefaultConfig == [t \in Toggles |-> FALSE]

Configs == { c \in [Toggles -> BOOLEAN] :
               Cardinality({t \in Toggles : c[t]}) <= MaxToggles }

Schemes == {"http", "https", "file"}

\* arun reads config.check_robots_txt, which CrawlerRunConfig.__init__ never
\* sets: "missing" is the configuration as constructed, "off" / "on" one that
\* was given the attribute afterwards.
RobotsAttr == {"missing", "off", "on"}

\* statuses a navigation response may carry: 0 when the response reports
\* none (line 699 provides for a falsy status), or an HTTP status
Statuses == {0, 200}


(***************************************************************************)
(* The stages of crawl() in source order, and which of them a              *)
(* configuration switches on.                                              *)
(***************************************************************************)
\* (variant of StageOrder) the screenshot taken ahead of the MHTML snapshot
StageOrderScreenshotFirst ==
  << "identity", "new_context", "new_page", "download_listener",
     "init_script", "simulate", "listeners", "ssl", "goto", "js",
     "overlay", "wait", "iframes", "screenshot", "mhtml",
     "finalize", "return" >>

StageOrder == << "identity", "new_context", "new_page", "download_listener",
                 "init_script", "simulate", "listeners", "ssl", "goto", "js",
                 "overlay", "wait", "iframes", "mhtml", "screenshot",
                 "finalize", "return" >>

\* the `if` that guards each stage
StageOn(c, u, s) ==
  CASE s = "init_script" -> c.override_navigator
    [] s = "simulate"    -> c.simulate_user
    [] s = "ssl"         -> c.fetch_ssl_certificate /\ u.scheme = "https"
    [] s = "js"          -> c.js_code
    [] s = "overlay"     -> c.remove_overlay_elements
    [] s = "wait"        -> c.wait_for
    [] s = "iframes"     -> c.process_iframes
    [] s = "mhtml"       -> c.capture_mhtml
    [] s = "screenshot"  -> c.screenshot
    [] OTHER             -> TRUE

IndexOf(s) == CHOOSE i \in 1..Len(StageOrder) : StageOrder[i] = s

\* the next stage after s that the configuration does not skip
After(s) ==
  LET later == { i \in (IndexOf(s) + 1)..Len(StageOrder) :
                   StageOn(config, url, StageOrder[i]) }
      first == CHOOSE i \in later : \A j \in later : i <= j
  IN  StageOrder[first]

\* the stages in which crawl() is suspended in an await while the page's
\* listeners are attached: page events are delivered there
Awaiting == { "goto", "js", "overlay", "wait", "iframes", "mhtml",
              "screenshot", "finalize", "dl_wait" }

(***************************************************************************)
(* models.py: AsyncCrawlResponse and CrawlResult.                          *)
(***************************************************************************)
\* (variant of AsyncCrawlResponse) the captured lists handed over whatever
\* the toggles say
AsyncCrawlResponseUngated(html, status, js, shot, ssl, mh) ==
  [ html                |-> html,
    status_code         |-> status,
    js_execution_result |-> js,
    network_requests    |-> Some(captured_requests),
    console_messages    |-> Some(captured_console),
    screenshot          |-> shot,
    downloaded_files    |-> IF downloaded_files # << >>
                              THEN Some(downloaded_files) ELSE None,
    ssl_certificate     |-> ssl,
    mhtml_data          |-> mh ]

AsyncCrawlResponse(html, status, js, shot, ssl, mh) ==
  [ html                |-> html,
    status_code         |-> status,
    js_execution_result |-> js,
    network_requests    |-> IF config.capture_network_requests
                              THEN Some(captured_requests) ELSE None,
    console_messages    |-> IF config.capture_console_messages
                              THEN Some(captured_console) ELSE None,
    screenshot          |-> shot,
    downloaded_files    |-> IF downloaded_files # << >>
                              THEN Some(downloaded_files) ELSE None,
    ssl_certificate     |-> ssl,
    mhtml_data          |-> mh ]

\* the js_execution_result of a failed response
JsFailure(text) == Some([success |-> FALSE, error |-> text])

CrawlResult(u, html, status, success, message, files) ==
  [ url                 |-> u,
    html                |-> html,
    status_code         |-> status,
    success             |-> success,
    error_message       |-> message,
    downloaded_files    |-> files,
    js_execution_result |-> None,
    screenshot          |-> "None",
    network_requests    |-> None,
    console_messages    |-> None,
    mhtml               |-> "None",
    ssl_certificate     |-> "None" ]

\* str(e) of the exception kinds of the model; asyncio.TimeoutError() has an
\* empty text
ExcText(e) == IF e = "AsyncTimeout" THEN "" ELSE e

(***************************************************************************)
(* BrowserManager's process-wide handles and the tasks that call start()   *)
(* and close(); the state of arun_many.                                    *)
(***************************************************************************)
\* tasks that call start() / close()
NTasks == 2
\* calls begun in one run
MaxCalls == 3
\* URLs handed to arun_many
MaxUrls == 3

Tasks == 1..NTasks

NoSnapshot == [ playwright_instance |-> 0, browser_instance |-> 0,
                n_engines |-> 0, n_browsers |-> 0,
                engines |-> {}, browsers |-> {} ]

IdleTask == [op |-> "none", pc |-> "idle", tmp |-> 0, pre |-> NoSnapshot]

\* class attributes of BrowserManager (6-7): 0 is None, otherwise the id of
\* the engine / browser; AsyncWebCrawler.ready (22)
BMInit ==
  [ playwright_instance |-> 0,
    browser_instance    |-> 0,
    ready               |-> FALSE,
    engines             |-> {},     \* engine processes running
    browsers            |-> {},     \* browsers running
    n_engines           |-> 0,      \* engines started so far
    n_browsers          |-> 0,      \* browsers launched so far
    calls               |-> 0,
    closes              |-> 0,
    task                |-> [t \in Tasks |-> IdleTask] ]

\* the state after `async with crawler:`: one engine, one browser
BMStarted ==
  [ BMInit EXCEPT !.playwright_instance = 1, !.browser_instance = 1,
                  !.ready = TRUE, !.engines = {1},
                  !.browsers = {[id |-> 1, engine |-> 1]},
                  !.n_engines = 1, !.n_browsers = 1 ]

ManyIdle == [ urls |-> << >>, pc |-> "idle", sess |-> << >>,
              completion |-> << >>, results |-> << >>,
              final_results |-> << >> ]

\* sessions that run concurrently on one strategy object
NSessions == 2

Sessions == 1..NSessions

\* a session of the strategy that has not begun
IdleSession == [ pc |-> "idle", started |-> 0, inflight |-> 0,
                 latch |-> FALSE, own |-> << >>, reported |-> {} ]

\* AsyncPlaywrightStrategy.__init__ (25): self._downloaded_files = []
StrategyIdle == [ downloaded_files |-> << >>,
                  sess |-> [i \in Sessions |-> IdleSession] ]

\* no relevance filter is modelled
FilterIdle == [ kind |-> "none" ]

\* no helper coroutine of the strategy is being followed
HelperIdle == [ kind |-> "none" ]

(***************************************************************************)
(* Init of one capture session.                                            *)
(***************************************************************************)
NoHistory == [ nav |-> "none", dl_wait |-> "none", raised_in |-> "none",
               degraded |-> {}, close_failed |-> FALSE, wait |-> "none" ]

\* the session's state before arun() is called
SessionInit ==
  /\ exc = "none"
  /\ ret = None
  /\ response = None
  /\ js_execution_result = None
  /\ captured_requests = << >>
  /\ captured_console = << >>
  /\ screenshot_data = "None"
  /\ mhtml_data = "unbound"
  /\ ssl_cert = "unbound"
  /\ final_html = "unbound"
  /\ final_status_code = 0
  /\ downloaded_files = << >>
  /\ download_completed_event = FALSE
  /\ downloads = [started |-> 0, inflight |-> 0]
  /\ listeners = {}
  /\ resources = [context |-> FALSE, page |-> FALSE,
                  page_closed |-> 0, context_closed |-> 0]
  /\ crawl_result = None
  /\ history = NoHistory

\* no capture session is modelled
NoSession ==
  /\ url = [scheme |-> "file", is_direct_download_url |-> FALSE]
  /\ config = DefaultConfig
  /\ pc = "idle"
  /\ SessionInit

InitCrawl ==
  /\ url \in [scheme : Schemes, is_direct_download_url : BOOLEAN]
  /\ config \in Configs
  /\ check_robots_txt \in RobotsAttr
  /\ pc = "arun"
  /\ SessionInit
  /\ bm = BMStarted
  /\ many = ManyIdle
  /\ strategy = StrategyIdle
  /\ filter = FilterIdle
  /\ helper = HelperIdle

locals == << response, js_execution_result, captured_requests,
             captured_console, screenshot_data, mhtml_data, ssl_cert,
             final_html, final_status_code >>
inputs == << url, config, check_robots_txt >>
pageState == << downloaded_files, download_completed_event, downloads,
                listeners, resources >>

(***************************************************************************)
(* AsyncWebCrawler.arun, up to the call of crawl().                        *)
(***************************************************************************)
\* an exception leaves crawl() before the guarded region: no finally runs
RaiseOutsideTry(kind, stage) ==
  /\ exc' = kind
  /\ pc' = "crawl_exit"
  /\ history' = [history EXCEPT !.raised_in = stage]

\* lines 122-143: the robots check.  The attribute is read only for http(s)
\* URLs (short-circuit `and`); reading a missing attribute raises
\* AttributeError, outside arun's try.
ArunBegin ==
  /\ pc = "arun"
  /\ IF url.scheme \in {"http", "https"} /\ check_robots_txt = "missing"
       THEN /\ pc' = "done"
            /\ exc' = "AttributeError"
            /\ history' = [history EXCEPT !.raised_in = "arun"]
            /\ UNCHANGED crawl_result
       ELSE IF url.scheme \in {"http", "https"} /\ check_robots_txt = "on"
         THEN \E allowed \in BOOLEAN :
                IF allowed
                  THEN /\ pc' = "identity"
                       /\ UNCHANGED << exc, history, crawl_result >>
                  ELSE /\ pc' = "done"
                       /\ crawl_result' =
                            Some(CrawlResult(url, "", 403, FALSE,
                                   "Access denied by robots.txt", None))
                       /\ UNCHANGED << exc, history >>
         ELSE /\ pc' = "identity"
              /\ UNCHANGED << exc, history, crawl_result >>
  /\ UNCHANGED << inputs, ret, locals, pageState, bm, many, extra >>

(***************************************************************************)
(* AsyncPlaywrightStrategy.crawl: the region before the try (523-643).     *)
(***************************************************************************)
\* lines 526-551: user agent, client hints, context options
Identity ==
  /\ pc = "identity"
  /\ pc' = After("identity")
  /\ UNCHANGED << inputs, exc, ret, locals, pageState, crawl_result,
                  history, bm, many, extra >>

\* line 553: browser.new_context(**context_options)
NewContext ==
  /\ pc = "new_context"
  /\ \/ /\ resources' = [resources EXCEPT !.context = TRUE]
        /\ pc' = After("new_context")
        /\ UNCHANGED << exc, history >>
     \/ /\ RaiseOutsideTry("Error", "new_context")
        /\ UNCHANGED resources
  /\ UNCHANGED << inputs, ret, locals, downloaded_files,
                  download_completed_event, downloads, listeners,
                  crawl_result, bm, many, extra >>

\* line 554: context.new_page()
NewPage ==
  /\ pc = "new_page"
  /\ \/ /\ resources' = [resources EXCEPT !.page = TRUE]
        /\ pc' = After("new_page")
        /\ UNCHANGED << exc, history >>
     \/ /\ RaiseOutsideTry("Error", "new_page")
        /\ UNCHANGED resources
  /\ UNCHANGED << inputs, ret, locals, downloaded_files,
                  download_completed_event, downloads, listeners,
                  crawl_result, bm, many, extra >>

\* lines 556-567: reset the strategy's list, create the latch, attach the
\* download listener when downloads are accepted
DownloadListener ==
  /\ pc = "download_listener"
  /\ downloaded_files' = << >>
  /\ download_completed_event' = FALSE
  /\ listeners' = IF config.accept_downloads
                    THEN listeners \cup {"download"} ELSE listeners
  /\ pc' = After("download_listener")
  /\ UNCHANGED << inputs, exc, ret, locals, downloads, resources,
                  crawl_result, history, bm, many, extra >>

\* lines 569-571: context.add_init_script(navigator_overrider)
InitScript ==
  /\ pc = "init_script"
  /\ \/ /\ pc' = After("init_script")
        /\ UNCHANGED << exc, history >>
     \/ RaiseOutsideTry("Error", "init_script")
  /\ UNCHANGED << inputs, ret, locals, pageState, crawl_result, bm, many, extra >>

\* lines 573-579: mouse move / down / up, key press, dwell
SimulateUser ==
  /\ pc = "simulate"
  /\ \/ /\ pc' = After("simulate")
        /\ UNCHANGED << exc, history >>
     \/ RaiseOutsideTry("Error", "simulate")
  /\ UNCHANGED << inputs, ret, locals, pageState, crawl_result, bm, many, extra >>

\* lines 581-643: initialise the locals, attach request / response and
\* console / pageerror listeners
Listeners ==
  /\ pc = "listeners"
  /\ js_execution_result' = None
  /\ captured_requests' = << >>
  /\ screenshot_data' = "None"
  /\ captured_console' = << >>
  /\ listeners' = listeners
       \cup (IF config.capture_network_requests
               THEN {"request", "response"} ELSE {})
       \cup (IF config.capture_console_messages
               THEN {"console", "pageerror"} ELSE {})
  /\ pc' = After("listeners")
  /\ UNCHANGED << inputs, exc, ret, response, mhtml_data, ssl_cert,
                  final_html, final_status_code, downloaded_files,
                  download_completed_event, downloads, resources,
                  crawl_result, history, bm, many, extra >>

(***************************************************************************)
(* crawl(): the guarded region (645-749).                                  *)
(***************************************************************************)
\* playwright.async_api.Error and its subclass TimeoutError
PlaywrightErrors == {"Error", "ErrorAborted", "PwTimeout"}

\* an exception raised by a stage of the inner try (656-705): `except Error`
\* (707) takes Playwright errors, `except Exception` (751) the others
RaiseInStage(kind, stage) ==
  /\ exc' = kind
  /\ pc' = IF kind \in PlaywrightErrors THEN "except_error" ELSE "except_all"
  /\ history' = [history EXCEPT !.raised_in = stage]

\* a failure the stage catches itself: logged, the pipeline goes on
Absorb(stage) == history' = [history EXCEPT !.degraded = @ \cup {stage}]

\* lines 646-652: SSLCertificate.from_url(url) yields a certificate or None
FetchSsl ==
  /\ pc = "ssl"
  /\ \E c \in {"cert", "None"} : ssl_cert' = c
  /\ pc' = After("ssl")
  /\ UNCHANGED << inputs, exc, ret, response, js_execution_result,
                  captured_requests, captured_console, screenshot_data,
                  mhtml_data, final_html, final_status_code, pageState,
                  crawl_result, history, bm, many, extra >>

\* line 657: page.goto: a response, None, or a Playwright error (aborted
\* navigation `net::ERR_ABORTED`, another error, a timeout)
Goto ==
  /\ pc = "goto"
  /\ \/ \E s \in Statuses :
          /\ response' = Some(s)
          /\ history' = [history EXCEPT !.nav = "response"]
          /\ pc' = After("goto")
          /\ UNCHANGED exc
     \/ /\ response' = None
        /\ history' = [history EXCEPT !.nav = "null"]
        /\ pc' = After("goto")
        /\ UNCHANGED exc
     \/ \E k \in PlaywrightErrors :
          /\ exc' = k
          /\ pc' = "except_error"
          /\ history' = [history EXCEPT !.raised_in = "goto",
                           !.nav = CASE k = "ErrorAborted" -> "aborted"
                                     [] k = "PwTimeout"    -> "timeout"
                                     [] OTHER              -> "error"]
          /\ UNCHANGED response
  /\ UNCHANGED << inputs, ret, js_execution_result, captured_requests,
                  captured_console, screenshot_data, mhtml_data, ssl_cert,
                  final_html, final_status_code, pageState, crawl_result,
                  bm, many, extra >>

\* lines 659-662: robust_execute_user_script never raises; it reports the
\* AND of the per-script flags
ExecuteJs ==
  /\ pc = "js"
  /\ \E ok \in BOOLEAN :
       js_execution_result' = Some([success |-> ok, error |-> "None"])
  /\ pc' = After("js")
  /\ UNCHANGED << inputs, exc, ret, response, captured_requests,
                  captured_console, screenshot_data, mhtml_data, ssl_cert,
                  final_html, final_status_code, pageState, crawl_result,
                  history, bm, many, extra >>

\* lines 664-665: remove_overlay_elements catches every exception of the pass
RemoveOverlay ==
  /\ pc = "overlay"
  /\ \/ UNCHANGED history
     \/ Absorb("overlay")
  /\ pc' = After("overlay")
  /\ UNCHANGED << inputs, exc, ret, locals, pageState, crawl_result,
                  bm, many, extra >>

\* lines 667-673: smart_wait returns, or raises PlaywrightTimeoutError or
\* ValueError, which crawl() logs and re-raises
SmartWait ==
  /\ pc = "wait"
  /\ \/ /\ pc' = After("wait")
        /\ history' = [history EXCEPT !.wait = "ok"]
        /\ UNCHANGED exc
     \/ \E k \in {"PwTimeout", "ValueError"} :
          /\ exc' = k
          /\ pc' = IF k \in PlaywrightErrors THEN "except_error"
                                             ELSE "except_all"
          /\ history' = [history EXCEPT !.raised_in = "wait", !.wait = k]
  /\ UNCHANGED << inputs, ret, locals, pageState, crawl_result, bm, many, extra >>

\* lines 675-677: process_iframes: query_selector_all (164) is unguarded,
\* each iframe's own failure is caught
ProcessIframes ==
  /\ pc = "iframes"
  /\ \/ /\ pc' = After("iframes")
        /\ UNCHANGED << exc, history >>
     \/ /\ pc' = After("iframes")
        /\ Absorb("iframes")
        /\ UNCHANGED exc
     \/ RaiseInStage("Error", "iframes")
  /\ UNCHANGED << inputs, ret, locals, pageState, crawl_result, bm, many, extra >>

\* lines 679-680: capture_mhtml returns the snapshot, or None when it has no
\* data or fails; the only assignment of mhtml_data
CaptureMhtml ==
  /\ pc = "mhtml"
  /\ \/ /\ mhtml_data' = "data"
        /\ UNCHANGED history
     \/ /\ mhtml_data' = "None"
        /\ UNCHANGED history
     \/ /\ mhtml_data' = "None"
        /\ Absorb("mhtml")
  /\ pc' = After("mhtml")
  /\ UNCHANGED << inputs, exc, ret, response, js_execution_result,
                  captured_requests, captured_console, screenshot_data,
                  ssl_cert, final_html, final_status_code, pageState,
                  crawl_result, bm, many, extra >>

\* lines 682-688: take_screenshot: a capture, the placeholder image, a
\* Playwright error from get_page_dimensions (143, unguarded), or a
\* non-Playwright error while drawing the placeholder (81-88, 132-138)
TakeScreenshot ==
  /\ pc = "screenshot"
  /\ \/ /\ screenshot_data' = "image"
        /\ pc' = After("screenshot")
        /\ UNCHANGED << exc, history >>
     \/ /\ screenshot_data' = "placeholder"
        /\ pc' = After("screenshot")
        /\ Absorb("screenshot")
        /\ UNCHANGED exc
     \/ /\ \E k \in {"Error", "Other"} : RaiseInStage(k, "screenshot")
        /\ UNCHANGED screenshot_data
  /\ UNCHANGED << inputs, ret, response, js_execution_result,
                  captured_requests, captured_console, mhtml_data, ssl_cert,
                  final_html, final_status_code, pageState, crawl_result,
                  bm, many, extra >>

\* a variant of line 699 that keeps a status of 0
ContentErrorStatusKept(status) == status

\* line 699: response.status if response.status else 200
ContentErrorStatus(status) == IF status # 0 THEN status ELSE 200

\* lines 690-705: final HTML and status
Finalize ==
  /\ pc = "finalize"
  /\ IF response # None
       THEN \/ /\ final_html' = "page"
               /\ final_status_code' = The(response)
               /\ UNCHANGED history
            \/ /\ final_html' = ""
               /\ final_status_code' = ContentErrorStatus(The(response))
               /\ Absorb("finalize")
       ELSE /\ final_html' = ""
            /\ final_status_code' =
                 IF url.is_direct_download_url /\ download_completed_event
                   THEN 200 ELSE 0
            /\ UNCHANGED history
  /\ pc' = After("finalize")
  /\ UNCHANGED << inputs, exc, ret, response, js_execution_result,
                  captured_requests, captured_console, screenshot_data,
                  mhtml_data, ssl_cert, pageState, crawl_result, bm, many, extra >>

\* a local that was never assigned: reading it raises UnboundLocalError
SslUnbound == config.fetch_ssl_certificate /\ ssl_cert = "unbound"
MhtmlUnbound == mhtml_data = "unbound"
FinalUnbound == final_html = "unbound"

\* lines 739-749: build and return the response
Return ==
  /\ pc = "return"
  /\ IF FinalUnbound \/ SslUnbound \/ MhtmlUnbound
       THEN /\ exc' = "Unbound"
            /\ pc' = "except_all"
            /\ history' = [history EXCEPT !.raised_in =
                             IF @ = "none" THEN "return" ELSE @]
            /\ UNCHANGED ret
       ELSE /\ ret' = Some(AsyncCrawlResponse(
                        final_html, final_status_code, js_execution_result,
                        screenshot_data,
                        IF config.fetch_ssl_certificate
                          THEN ssl_cert ELSE "None",
                        mhtml_data))
            /\ pc' = "finally"
            /\ UNCHANGED << exc, history >>
  /\ UNCHANGED << inputs, locals, pageState, crawl_result, bm, many, extra >>

(***************************************************************************)
(* crawl(): the handlers (707-760) and the finally block (762-772).        *)
(***************************************************************************)
\* line 708: the aborted-navigation-with-download case
IsDownloadAbort ==
  /\ exc = "ErrorAborted"
  /\ config.accept_downloads
  /\ url.is_direct_download_url

\* lines 707-713, 729-737: `except Error as e`
ExceptError ==
  /\ pc = "except_error"
  /\ IF IsDownloadAbort
       THEN /\ pc' = "dl_wait"
            /\ UNCHANGED << exc, ret >>
       ELSE IF MhtmlUnbound
         THEN /\ exc' = "Unbound"
              /\ pc' = "except_all"
              /\ UNCHANGED ret
         ELSE /\ ret' = Some(AsyncCrawlResponse(
                          "", 0, JsFailure("Navigation failed"), "None",
                          "None", mhtml_data))
              /\ exc' = "none"
              /\ pc' = "finally"
  /\ UNCHANGED << inputs, locals, pageState, crawl_result, history,
                  bm, many, extra >>

\* lines 714-720: asyncio.wait_for(download_completed_event.wait(), timeout):
\* with the latch set the pseudo-response is synthesized and control falls
\* through to the return at 739; otherwise the wait times out and the
\* TimeoutError is re-raised
DownloadWait ==
  /\ pc = "dl_wait"
  /\ IF download_completed_event
       THEN /\ response' = Some(200)
            /\ exc' = "none"
            /\ pc' = "return"
            /\ history' = [history EXCEPT !.dl_wait = "ok"]
       ELSE /\ exc' = "AsyncTimeout"
            /\ pc' = "except_all"
            /\ history' = [history EXCEPT !.dl_wait = "timeout"]
            /\ UNCHANGED response
  /\ UNCHANGED << inputs, ret, js_execution_result, captured_requests,
                  captured_console, screenshot_data, mhtml_data, ssl_cert,
                  final_html, final_status_code, pageState, crawl_result,
                  bm, many, extra >>

\* lines 751-760: `except Exception as e`; an UnboundLocalError raised while
\* the handler builds its response leaves crawl() after the finally block
ExceptAll ==
  /\ pc = "except_all"
  /\ IF SslUnbound \/ MhtmlUnbound
       THEN /\ exc' = "Unbound"
            /\ ret' = None
       ELSE /\ ret' = Some(AsyncCrawlResponse(
                        "", 0, JsFailure("Overall crawl failed"), "None",
                        IF config.fetch_ssl_certificate
                          THEN ssl_cert ELSE "None",
                        mhtml_data))
            /\ exc' = "none"
  /\ pc' = "finally"
  /\ UNCHANGED << inputs, locals, pageState, crawl_result, history,
                  bm, many, extra >>

\* lines 763-770: remove every listener that was attached
RemoveListeners ==
  /\ pc = "finally"
  /\ listeners' = {}
  /\ pc' = "close_page"
  /\ UNCHANGED << inputs, exc, ret, locals, downloaded_files,
                  download_completed_event, downloads, resources,
                  crawl_result, history, bm, many, extra >>

\* an exception raised inside the finally block replaces the pending return
\* or exception and leaves crawl() at once
RaiseInFinally ==
  /\ exc' = "Error"
  /\ ret' = None
  /\ pc' = "crawl_exit"
  /\ history' = [history EXCEPT !.close_failed = TRUE]

\* line 771: page.close()
ClosePage ==
  /\ pc = "close_page"
  /\ \/ /\ resources' = [resources EXCEPT !.page_closed = @ + 1]
        /\ pc' = "close_context"
        /\ UNCHANGED << exc, ret, history >>
     \/ /\ RaiseInFinally
        /\ UNCHANGED resources
  /\ UNCHANGED << inputs, locals, downloaded_files, download_completed_event,
                  downloads, listeners, crawl_result, bm, many, extra >>

\* line 772: context.close()
CloseContext ==
  /\ pc = "close_context"
  /\ \/ /\ resources' = [resources EXCEPT !.context_closed = @ + 1]
        /\ pc' = "crawl_exit"
        /\ UNCHANGED << exc, ret, history >>
     \/ /\ RaiseInFinally
        /\ UNCHANGED resources
  /\ UNCHANGED << inputs, locals, downloaded_files, download_completed_event,
                  downloads, listeners, crawl_result, bm, many, extra >>

(***************************************************************************)
(* AsyncWebCrawler.arun, after crawl() (145-170).                          *)
(***************************************************************************)
\* lines 151-157: what arun copies from the response
ResultOfResponse(u, r) ==
  CrawlResult(u, r.html, r.status_code, TRUE, "None", r.downloaded_files)

\* lines 164-170: what arun returns when crawl() raised
ResultOfException(u, e) ==
  CrawlResult(u, "", 0, FALSE, ExcText(e), None)

ArunFinish ==
  /\ pc = "crawl_exit"
  /\ crawl_result' = IF exc = "none"
                       THEN Some(ResultOfResponse(url, The(ret)))
                       ELSE Some(ResultOfException(url, exc))
  /\ pc' = "done"
  /\ UNCHANGED << inputs, exc, ret, locals, pageState, history, bm, many, extra >>

(***************************************************************************)
(* Page events, delivered while crawl() is suspended.                      *)
(***************************************************************************)
\* lines 587-605: handle_request_capture / handle_response_capture
NetworkEvent ==
  /\ pc \in Awaiting
  /\ Len(captured_requests) < MaxEvents
  /\ \E ev \in {"request", "response"} :
       /\ ev \in listeners
       /\ captured_requests' = Append(captured_requests, ev)
  /\ UNCHANGED << inputs, pc, exc, ret, response, js_execution_result,
                  captured_console, screenshot_data, mhtml_data, ssl_cert,
                  final_html, final_status_code, pageState, crawl_result,
                  history, bm, many, extra >>

\* lines 608-637: handle_console_capture / handle_pageerror_capture
ConsoleEvent ==
  /\ pc \in Awaiting
  /\ Len(captured_console) < MaxEvents
  /\ \E ev \in {"console", "pageerror"} :
       /\ ev \in listeners
       /\ captured_console' = Append(captured_console, ev)
  /\ UNCHANGED << inputs, pc, exc, ret, response, js_execution_result,
                  captured_requests, screenshot_data, mhtml_data, ssl_cert,
                  final_html, final_status_code, pageState, crawl_result,
                  history, bm, many, extra >>

\* lines 559-561: a download event starts _download_completion_wrapper
DownloadStart ==
  /\ pc \in Awaiting
  /\ "download" \in listeners
  /\ downloads.started < MaxDownloads
  /\ downloads' = [started |-> downloads.started + 1,
                   inflight |-> downloads.inflight + 1]
  /\ UNCHANGED << inputs, pc, exc, ret, locals, downloaded_files,
                  download_completed_event, listeners, resources,
                  crawl_result, history, bm, many, extra >>

\* (variant of DownloadFinish) a wrapper that sets the latch only after a
\* download that was saved
DownloadFinishLatchOnSuccess ==
  /\ pc \in Awaiting
  /\ downloads.inflight > 0
  /\ \/ /\ downloaded_files' = Append(downloaded_files, downloads.started)
        /\ download_completed_event' = TRUE
     \/ UNCHANGED << downloaded_files, download_completed_event >>
  /\ downloads' = [downloads EXCEPT !.inflight = @ - 1]
  /\ UNCHANGED << inputs, pc, exc, ret, locals, listeners, resources,
                  crawl_result, history, bm, many, extra >>

\* lines 465-497, 562-563: _handle_download saves the file and appends its
\* path, or logs the failure; the wrapper's finally sets the latch
DownloadFinish ==
  /\ pc \in Awaiting
  /\ downloads.inflight > 0
  /\ \/ downloaded_files' = Append(downloaded_files, downloads.started)
     \/ UNCHANGED downloaded_files
  /\ download_completed_event' = TRUE
  /\ downloads' = [downloads EXCEPT !.inflight = @ - 1]
  /\ UNCHANGED << inputs, pc, exc, ret, locals, listeners, resources,
                  crawl_result, history, bm, many, extra >>

NextCrawl ==
  \/ ArunBegin \/ Identity \/ NewContext \/ NewPage \/ DownloadListener
  \/ InitScript \/ SimulateUser \/ Listeners \/ FetchSsl \/ Goto
  \/ ExecuteJs \/ RemoveOverlay \/ SmartWait \/ ProcessIframes
  \/ CaptureMhtml \/ TakeScreenshot \/ Finalize \/ Return \/ ExceptError
  \/ DownloadWait \/ ExceptAll \/ RemoveListeners \/ ClosePage
  \/ CloseContext \/ ArunFinish \/ NetworkEvent \/ ConsoleEvent
  \/ DownloadStart \/ DownloadFinish

SpecCrawl == InitCrawl /\ [][NextCrawl]_vars

\* the sessions of an https URL whose configuration carries
\* check_robots_txt = False: arun() goes straight to crawl(), and every stage
\* of crawl(), the certificate fetch included, can run
InitCrawlHttps ==
  /\ InitCrawl
  /\ url.scheme = "https"
  /\ check_robots_txt = "off"

SpecCrawlHttps == InitCrawlHttps /\ [][NextCrawl]_vars

(***************************************************************************)
(* Properties of one capture session (SpecCrawl).                          *)
(***************************************************************************)
\* crawl() has ended (returned or raised) after creating context and page
CrawlEnded == pc = "crawl_exit" /\ resources.page

\* the stages between navigation and the building of the response
CaptureStages == { "ssl", "goto", "js", "overlay", "wait", "iframes",
                   "mhtml", "screenshot", "finalize", "return" }

\* the aborted-navigation-with-download case of the navigation stage
DownloadAbortCase ==
  /\ history.nav = "aborted"
  /\ config.accept_downloads
  /\ url.is_direct_download_url

FailedResponse(r) ==
  /\ r.status_code = 0
  /\ r.js_execution_result # None
  /\ ~ The(r.js_execution_result).success

\* C1: once context and page exist, crawl() ends by returning a response and
\* never by raising; an exception raised inside a capture stage (other than
\* the download-abort case) ends in a failed response: status_code 0 and
\* js_execution_result.success = false.
C1_CrawlAlwaysReturns ==
  (CrawlEnded /\ ~ history.close_failed) =>
     /\ exc = "none"
     /\ ret # None
     /\ (history.raised_in \in CaptureStages /\ ~ DownloadAbortCase)
          => FailedResponse(The(ret))

\* C2: every capture session closes its page exactly once and its context
\* exactly once on every exit path, also when an exception is raised between
\* page creation and the guarded region.
C2_ClosedExactlyOnce ==
  (CrawlEnded /\ ~ history.close_failed) =>
     /\ resources.page_closed = 1
     /\ resources.context_closed = 1

\* C3: with the default configuration and a navigation response of status s
\* in 200..399 whose content can be read, the capture succeeds with status s
\* and the page's HTML.
C3_DefaultCaptureSucceeds ==
  ( /\ pc = "done"
    /\ config = DefaultConfig
    /\ history.nav = "response"
    /\ The(response) \in 200..399
    /\ history.degraded = {}
    /\ ~ history.close_failed )
  => /\ crawl_result # None
     /\ The(crawl_result).success
     /\ The(crawl_result).status_code = The(response)
     /\ The(crawl_result).html = "page"

\* C4: downloads accepted, a download URL, navigation aborted and the latch
\* set before the timeout: success, status 200, a non-empty downloaded-files
\* list and empty HTML.
C4_DownloadAbortSucceeds ==
  ( /\ pc = "done"
    /\ DownloadAbortCase
    /\ history.dl_wait = "ok"
    /\ ~ history.close_failed )
  => /\ crawl_result # None
     /\ The(crawl_result).success
     /\ The(crawl_result).status_code = 200
     /\ The(crawl_result).downloaded_files # None
     /\ The(crawl_result).html = ""

\* C5: a navigation error outside the download-abort case makes crawl()
\* return a failed response (status 0, empty HTML, a message); it is not
\* raised, whatever the configuration.
C5_NavigationErrorReturned ==
  ( /\ CrawlEnded
    /\ history.raised_in = "goto"
    /\ ~ DownloadAbortCase
    /\ ~ history.close_failed )
  => /\ exc = "none"
     /\ ret # None
     /\ FailedResponse(The(ret))
     /\ The(ret).html = ""
     /\ The(The(ret).js_execution_result).error # "None"

\* the capture failed: crawl() raised, or returned a response of status 0
CaptureFailed ==
  \/ exc # "none"
  \/ ret # None /\ The(ret).status_code = 0

ArtifactsGathered ==
  \/ captured_requests # << >>
  \/ captured_console # << >>
  \/ screenshot_data # "None"

\* C6: a failed capture still carries the artifacts gathered before the
\* failure (network events, console entries, a screenshot already taken),
\* in crawl()'s response and in arun()'s CrawlResult.
C6_PartialArtifactsKept ==
  /\ ( CrawlEnded /\ CaptureFailed /\ ArtifactsGathered
         /\ ~ history.close_failed )
     => /\ ret # None
        /\ config.capture_network_requests
             => The(ret).network_requests = Some(captured_requests)
        /\ config.capture_console_messages
             => The(ret).console_messages = Some(captured_console)
        /\ The(ret).screenshot = screenshot_data
  /\ ( pc = "done" /\ resources.page /\ CaptureFailed /\ ArtifactsGathered
         /\ ~ history.close_failed )
     => /\ crawl_result # None
        /\ config.capture_network_requests
             => The(crawl_result).network_requests = Some(captured_requests)
        /\ config.capture_console_messages
             => The(crawl_result).console_messages = Some(captured_console)
        /\ The(crawl_result).screenshot = screenshot_data

\* C7: when the capture failed, arun() returns success = false with a
\* non-empty error message; success = true only when the capture succeeded.
C7_FailureReported ==
  ( pc = "done" /\ resources.page /\ CaptureFailed )
  => /\ crawl_result # None
     /\ ~ The(crawl_result).success
     /\ The(crawl_result).error_message \notin {"None", ""}

(***************************************************************************)
(* BrowserManager.start / close (browser_manager.py 12-24) and             *)
(* AsyncWebCrawler.start / close (async_webcrawler.py 25-36), run by       *)
(* cooperative tasks: every await is a suspension point.                   *)
(***************************************************************************)
Ops == {"start", "close", "cstart", "cclose"}

AllIdle == \A t \in Tasks : bm.task[t].pc = "idle"

\* what a call sees when it begins
Snapshot == [ playwright_instance |-> bm.playwright_instance,
              browser_instance    |-> bm.browser_instance,
              n_engines           |-> bm.n_engines,
              n_browsers          |-> bm.n_browsers,
              engines             |-> bm.engines,
              browsers            |-> bm.browsers ]

FirstPc(op) == CASE op = "start"  -> "s1"
                 [] op = "close"  -> "c1"
                 [] op = "cstart" -> "cs"
                 [] op = "cclose" -> "cc"
                 [] op = "session" -> "n1"

\* a task calls start() or close()
Call(t, op) ==
  /\ bm.task[t].pc = "idle"
  /\ bm.calls < MaxCalls
  /\ bm' = [bm EXCEPT !.calls = @ + 1,
                      !.closes = IF op \in {"close", "cclose"}
                                   THEN @ + 1 ELSE @,
                      !.task[t] = [op |-> op, pc |-> FirstPc(op), tmp |-> 0,
                                   pre |-> Snapshot]]
  /\ UNCHANGED << crawlVars, many, extra >>

\* calls overlap freely
BeginCall == \E t \in Tasks, op \in Ops : Call(t, op)

\* calls never overlap: one begins only when no other is in flight
BeginCallSeq == \E t \in Tasks, op \in Ops : AllIdle /\ Call(t, op)

\* (mutation of NotSet) the check of the handle left out
NotSetUnchecked(handle) == TRUE

\* `if not BrowserManager._playwright_instance` / `if not ..._browser_instance`
NotSet(handle) == handle = 0

\* AsyncWebCrawler.start, lines 26-27: `if not self.ready: await __aenter__()`
CrawlerStart(t) ==
  /\ bm.task[t].pc = "cs"
  /\ bm' = [bm EXCEPT !.task[t].pc = IF ~ bm.ready THEN "s1" ELSE "ret"]
  /\ UNCHANGED << crawlVars, many, extra >>

\* AsyncWebCrawler.close, lines 33-34
CrawlerClose(t) ==
  /\ bm.task[t].pc = "cc"
  /\ bm' = [bm EXCEPT !.task[t].pc = IF bm.ready THEN "c1" ELSE "ret"]
  /\ UNCHANGED << crawlVars, many, extra >>

\* lines 13-14, up to the await: async_playwright().start() is called when
\* the handle is unset; the engine starts (or fails to) while the task is
\* suspended
StartEngine(t) ==
  /\ bm.task[t].pc = "s1"
  /\ IF NotSet(bm.playwright_instance)
       THEN \/ bm' = [bm EXCEPT !.n_engines = @ + 1,
                                !.engines = @ \cup {bm.n_engines + 1},
                                !.task[t].tmp = bm.n_engines + 1,
                                !.task[t].pc = "s1w"]
            \/ bm' = [bm EXCEPT !.task[t].pc = "raised"]
       ELSE bm' = [bm EXCEPT !.task[t].pc = "s2"]
  /\ UNCHANGED << crawlVars, many, extra >>

\* line 14, after the await: the assignment of the handle
EngineStarted(t) ==
  /\ bm.task[t].pc = "s1w"
  /\ bm' = [bm EXCEPT !.playwright_instance = bm.task[t].tmp,
                      !.task[t].pc = "s2"]
  /\ UNCHANGED << crawlVars, many, extra >>

\* start() returns; AsyncWebCrawler.start then sets ready (29)
StartReturns(t) ==
  [bm EXCEPT !.task[t].pc = "ret",
             !.ready = IF bm.task[t].op = "cstart" THEN TRUE ELSE @]

\* lines 15-16, up to the await: chromium.launch on the engine the handle
\* names at that moment
LaunchBrowser(t) ==
  /\ bm.task[t].pc = "s2"
  /\ IF NotSet(bm.browser_instance)
       THEN IF bm.playwright_instance \in bm.engines
              THEN \/ bm' = [bm EXCEPT
                              !.n_browsers = @ + 1,
                              !.browsers = @ \cup
                                 {[id |-> bm.n_browsers + 1,
                                   engine |-> bm.playwright_instance]},
                              !.task[t].tmp = bm.n_browsers + 1,
                              !.task[t].pc = "s2w"]
                   \/ bm' = [bm EXCEPT !.task[t].pc = "raised"]
              ELSE bm' = [bm EXCEPT !.task[t].pc = "raised"]
       ELSE bm' = StartReturns(t)
  /\ UNCHANGED << crawlVars, many, extra >>

\* line 16, after the await
BrowserLaunched(t) ==
  /\ bm.task[t].pc = "s2w"
  /\ bm' = [StartReturns(t) EXCEPT !.browser_instance = bm.task[t].tmp]
  /\ UNCHANGED << crawlVars, many, extra >>

\* lines 19-20, up to the await: _browser_instance.close()
CloseBrowser(t) ==
  /\ bm.task[t].pc = "c1"
  /\ IF ~ NotSet(bm.browser_instance)
       THEN bm' = [bm EXCEPT
                     !.browsers = { b \in @ : b.id # bm.browser_instance },
                     !.task[t].pc = "c1w"]
       ELSE bm' = [bm EXCEPT !.task[t].pc = "c2"]
  /\ UNCHANGED << crawlVars, many, extra >>

\* line 21
BrowserClosed(t) ==
  /\ bm.task[t].pc = "c1w"
  /\ bm' = [bm EXCEPT !.browser_instance = 0, !.task[t].pc = "c2"]
  /\ UNCHANGED << crawlVars, many, extra >>

\* close() returns; AsyncWebCrawler.close then clears ready (36)
CloseReturns(t) ==
  [bm EXCEPT !.task[t].pc = "ret",
             !.ready = IF bm.task[t].op = "cclose" THEN FALSE ELSE @]

\* lines 22-23, up to the await: _playwright_instance.stop(); the engine's
\* browsers end with it
StopEngine(t) ==
  /\ bm.task[t].pc = "c2"
  /\ IF ~ NotSet(bm.playwright_instance)
       THEN bm' = [bm EXCEPT
                     !.engines = @ \ {bm.playwright_instance},
                     !.browsers =
                        { b \in @ : b.engine # bm.playwright_instance },
                     !.task[t].pc = "c2w"]
       ELSE bm' = CloseReturns(t)
  /\ UNCHANGED << crawlVars, many, extra >>

\* line 24
EngineStopped(t) ==
  /\ bm.task[t].pc = "c2w"
  /\ bm' = [CloseReturns(t) EXCEPT !.playwright_instance = 0]
  /\ UNCHANGED << crawlVars, many, extra >>

\* the call is over (returned or raised); the task may call again
CallEnds(t) ==
  /\ bm.task[t].pc \in {"ret", "raised"}
  /\ bm' = [bm EXCEPT !.task[t] = IdleTask]
  /\ UNCHANGED << crawlVars, many, extra >>

TaskStep ==
  \E t \in Tasks :
    \/ CrawlerStart(t) \/ CrawlerClose(t) \/ StartEngine(t)
    \/ EngineStarted(t) \/ LaunchBrowser(t) \/ BrowserLaunched(t)
    \/ CloseBrowser(t) \/ BrowserClosed(t) \/ StopEngine(t)
    \/ EngineStopped(t) \/ CallEnds(t)

InitBM ==
  /\ NoSession
  /\ check_robots_txt = "missing"
  /\ bm = BMInit
  /\ many = ManyIdle
  /\ strategy = StrategyIdle
  /\ filter = FilterIdle
  /\ helper = HelperIdle

NextBM == BeginCall \/ TaskStep
NextBMSeq == BeginCallSeq \/ TaskStep

\* tasks calling start() / close() concurrently
SpecBM == InitBM /\ [][NextBM]_vars
\* the same calls, one at a time
SpecBMSeq == InitBM /\ [][NextBMSeq]_vars

(***************************************************************************)
(* Properties of the browser lifecycle (SpecBM, SpecBMSeq).                *)
(***************************************************************************)
BrowserIds == { b.id : b \in bm.browsers }

\* every running engine / browser is the one the process-wide handle names
NothingUnreferenced ==
  /\ bm.engines \subseteq {bm.playwright_instance}
  /\ BrowserIds \subseteq {bm.browser_instance}

\* C8: when tasks call start() concurrently while no engine is running (and
\* nobody calls close()), at most one engine is started and at most one
\* browser is launched, and once the calls are over no launched instance is
\* left unreferenced by the handles.
C8_SingleStartup ==
  bm.closes = 0 =>
    /\ bm.n_engines <= 1
    /\ bm.n_browsers <= 1
    /\ AllIdle => NothingUnreferenced

\* C9: in a sequence of non-overlapping start() / close() calls: a start()
\* that returns leaves both handles set, and launches nothing when both were
\* set already; a close() leaves both handles clear and nothing running, and
\* changes nothing when both were clear already; at most one engine and one
\* browser exist at any time.
C9_SequentialIdempotent ==
  /\ Cardinality(bm.engines) <= 1
  /\ Cardinality(bm.browsers) <= 1
  /\ \A t \in Tasks :
       LET c == bm.task[t] IN
       c.pc = "ret" =>
         /\ c.op = "start" =>
              /\ bm.playwright_instance # 0
              /\ bm.browser_instance # 0
              /\ bm.engines = {bm.playwright_instance}
              /\ BrowserIds = {bm.browser_instance}
              /\ (c.pre.playwright_instance # 0 /\ c.pre.browser_instance # 0)
                   => Snapshot = c.pre
         /\ c.op = "close" =>
              /\ bm.playwright_instance = 0
              /\ bm.browser_instance = 0
              /\ bm.engines = {}
              /\ bm.browsers = {}
              /\ (c.pre.playwright_instance = 0 /\ c.pre.browser_instance = 0)
                   => Snapshot = c.pre

\* a start() returned that found both handles set, after an earlier close()
C9_Witness ==
  \E t \in Tasks :
    /\ bm.task[t].pc = "ret"
    /\ bm.task[t].op = "start"
    /\ bm.task[t].pre.playwright_instance # 0
    /\ bm.task[t].pre.browser_instance # 0
    /\ bm.closes > 0

(***************************************************************************)
(* AsyncWebCrawler.arun_many (async_webcrawler.py 93-114): one arun() per  *)
(* URL, run concurrently by asyncio.gather(return_exceptions=True).        *)
(***************************************************************************)
\* the URLs of a batch (the extension plays no part in the fan-out)
BatchUrls == [scheme : {"https", "file"}, is_direct_download_url : {FALSE}]

\* url="" of the CrawlResult built for a task that raised (108)
EmptyUrl == [scheme |-> "", is_direct_download_url |-> FALSE]

SeqsUpTo(S, n) == UNION { [1..k -> S] : k \in 0..n }

\* what a task of gather ends with: a returned CrawlResult or an exception
Returned(r) == [result |-> Some(r), exception |-> "none"]
Raised(e) == [result |-> None, exception |-> e]
NoOutcome == [result |-> None, exception |-> "none"]

\* the responses crawl() may return, as far as arun() reads them: the page
\* with the navigation's status, or empty HTML with status 0
BatchResponses ==
  { [html |-> "page", status_code |-> s, downloaded_files |-> None] :
      s \in Statuses }
  \cup { [html |-> "", status_code |-> 0, downloaded_files |-> None] }

\* the ways arun(u) ends (116-170): AttributeError on the missing attribute
\* of an http(s) URL, the robots denial, the result built from crawl()'s
\* response, the result built from crawl()'s exception
ArunOutcomes(u) ==
  IF u.scheme \in {"http", "https"} /\ check_robots_txt = "missing"
    THEN { Raised("AttributeError") }
    ELSE (IF u.scheme \in {"http", "https"} /\ check_robots_txt = "on"
            THEN { Returned(CrawlResult(u, "", 403, FALSE,
                                        "Access denied by robots.txt", None)) }
            ELSE {})
         \cup { Returned(ResultOfResponse(u, r)) : r \in BatchResponses }
         \cup { Returned(ResultOfException(u, e)) : e \in {"Unbound"} }

\* lines 94-101: the crawler is ready; one coroutine per URL, in input order
ArunManyStart ==
  /\ many.pc = "start"
  /\ many' = [many EXCEPT !.pc = "gather"]
  /\ UNCHANGED << crawlVars, bm, extra >>

\* a task of the gather begins its arun()
SessionStart(i) ==
  /\ many.pc = "gather"
  /\ many.sess[i].pc = "pending"
  /\ many' = [many EXCEPT !.sess[i].pc = "running"]
  /\ UNCHANGED << crawlVars, bm, extra >>

\* a task ends, in any order with respect to the others
SessionFinish(i) ==
  /\ many.pc = "gather"
  /\ many.sess[i].pc = "running"
  /\ \E o \in ArunOutcomes(many.urls[i]) :
       many' = [many EXCEPT !.sess[i] = [pc |-> "finished", out |-> o],
                            !.completion = Append(@, i)]
  /\ UNCHANGED << crawlVars, bm, extra >>

\* (mutation of GatherResults) the outcomes in completion order
GatherInCompletionOrder(outs, completion) ==
  [k \in 1..Len(outs) |-> outs[completion[k]]]

\* line 102: gather returns its tasks' outcomes in the order the awaitables
\* were passed, whatever order they completed in
GatherResults(outs, completion) == outs

\* (variant of GatherDone) gather without return_exceptions: it returns as
\* soon as one of its tasks has raised
GatherDoneOnFirstException(sess) ==
  \/ \A i \in 1..Len(sess) : sess[i].pc = "finished"
  \/ \E i \in 1..Len(sess) :
        sess[i].pc = "finished" /\ sess[i].out.exception # "none"

\* line 102, return_exceptions=True: gather returns when every task has
\* ended, whether it returned or raised
GatherDone(sess) == \A i \in 1..Len(sess) : sess[i].pc = "finished"

GatherReturns ==
  /\ many.pc = "gather"
  /\ GatherDone(many.sess)
  /\ many' = [many EXCEPT
                !.results = GatherResults(
                    [i \in 1..Len(many.urls) |-> many.sess[i].out],
                    many.completion),
                !.pc = "collect"]
  /\ UNCHANGED << crawlVars, bm, extra >>

\* lines 105-110: an exception becomes a failure result with url=""
FinalResult(o) ==
  IF o.exception # "none"
    THEN CrawlResult(EmptyUrl, "", 0, FALSE, ExcText(o.exception), None)
    ELSE The(o.result)

\* lines 104-114
CollectResults ==
  /\ many.pc = "collect"
  /\ many' = [many EXCEPT
                !.final_results =
                   [i \in 1..Len(many.results) |-> FinalResult(many.results[i])],
                !.pc = "done"]
  /\ UNCHANGED << crawlVars, bm, extra >>

InitMany ==
  /\ NoSession
  /\ check_robots_txt \in RobotsAttr
  /\ bm = BMStarted
  /\ \E us \in SeqsUpTo(BatchUrls, MaxUrls) :
       many = [ urls |-> us, pc |-> "start",
                sess |-> [i \in 1..Len(us) |->
                            [pc |-> "pending", out |-> NoOutcome]],
                completion |-> << >>, results |-> << >>,
                final_results |-> << >> ]
  /\ strategy = StrategyIdle
  /\ filter = FilterIdle
  /\ helper = HelperIdle

NextMany ==
  \/ ArunManyStart
  \/ \E i \in 1..Len(many.urls) : SessionStart(i)
  \/ \E i \in 1..Len(many.urls) : SessionFinish(i)
  \/ GatherReturns
  \/ CollectResults

SpecMany == InitMany /\ [][NextMany]_vars

(***************************************************************************)
(* Properties of the fan-out (SpecMany).                                   *)
(***************************************************************************)
\* C10: arun_many(urls) returns a list as long as urls whose i-th element is
\* the outcome of the session of urls[i] (its result, or the failure built
\* from its exception), whatever order the sessions completed in.
C10_ResultsInInputOrder ==
  many.pc = "done" =>
    /\ Len(many.final_results) = Len(many.urls)
    /\ \A i \in 1..Len(many.urls) :
         LET o == many.sess[i].out
             r == many.final_results[i]
         IN  IF o.exception = "none"
               THEN r = The(o.result)
               ELSE /\ ~ r.success
                    /\ r.error_message = ExcText(o.exception)

\* a batch returned whose sessions completed out of input order with
\* different outcomes
C10_Witness ==
  /\ many.pc = "done"
  /\ Len(many.urls) >= 2
  /\ many.completion[1] # 1
  /\ many.sess[1].out # many.sess[2].out

\* C11: in arun_many a session that fails or raises does not abort its
\* siblings: when gather has returned every session has run to completion,
\* and a session that raised is reported at its own position as a failure
\* result (success = false, the exception's text as error message), a session
\* that returned a failure result by that result.
C11_FailureIsolated ==
  /\ many.pc \in {"collect", "done"} =>
        \A i \in 1..Len(many.urls) : many.sess[i].pc = "finished"
  /\ many.pc = "done" =>
        \A i \in 1..Len(many.urls) :
          LET o == many.sess[i].out IN
          /\ o.exception # "none" =>
                /\ i <= Len(many.final_results)
                /\ ~ many.final_results[i].success
                /\ many.final_results[i].error_message = ExcText(o.exception)
                /\ many.final_results[i].error_message # ""
          /\ (o.exception = "none" /\ ~ The(o.result).success) =>
                /\ i <= Len(many.final_results)
                /\ many.final_results[i] = The(o.result)

\* a batch returned in which a session raised before a sibling had ended, and
\* the sibling went on to return a successful result
C11_Witness ==
  /\ many.pc = "done"
  /\ \E i, j \in 1..Len(many.urls) :
        /\ many.completion[1] = i
        /\ many.sess[i].out.exception # "none"
        /\ j # i
        /\ many.sess[j].out.exception = "none"
        /\ The(many.sess[j].out.result).success
        /\ many.final_results[j].success

(***************************************************************************)
(* Concurrent capture sessions on one AsyncPlaywrightStrategy (arun_many   *)
(* runs every arun() on the crawler's single strategy).  The sessions      *)
(* accept downloads and capture MHTML, so that crawl() reaches its return  *)
(* at 739; self._downloaded_files is an attribute of the strategy.         *)
(***************************************************************************)
\* lines 553-567: the session rebinds self._downloaded_files to a new empty
\* list, creates its own latch and attaches its download listener
SessionBegin(i) ==
  /\ strategy.sess[i].pc = "idle"
  /\ strategy' = [strategy EXCEPT !.downloaded_files = << >>,
                                  !.sess[i].pc = "awaiting"]
  /\ UNCHANGED << crawlVars, bm, many, filter, helper >>

\* lines 559-566: a download event of session i's page starts its
\* _download_completion_wrapper
SessionDownloadStart(i) ==
  /\ strategy.sess[i].pc = "awaiting"
  /\ strategy.sess[i].started < MaxDownloads
  /\ strategy' = [strategy EXCEPT !.sess[i].started = @ + 1,
                                  !.sess[i].inflight = @ + 1]
  /\ UNCHANGED << crawlVars, bm, many, filter, helper >>

\* lines 465-497, 562-563: save_as succeeds and the path is appended to
\* self._downloaded_files (481), or it fails and is logged; the latch is set
SessionDownloadFinish(i) ==
  /\ strategy.sess[i].pc = "awaiting"
  /\ strategy.sess[i].inflight > 0
  /\ LET file == [page |-> i, n |-> strategy.sess[i].started] IN
       \/ strategy' = [strategy EXCEPT
                         !.downloaded_files = Append(@, file),
                         !.sess[i].own = Append(@, file),
                         !.sess[i].inflight = @ - 1,
                         !.sess[i].latch = TRUE]
       \/ strategy' = [strategy EXCEPT !.sess[i].inflight = @ - 1,
                                       !.sess[i].latch = TRUE]
  /\ UNCHANGED << crawlVars, bm, many, filter, helper >>

\* line 746: downloaded_files=self._downloaded_files if self._downloaded_files
\* else None; then the finally block detaches the listener and closes the page
SessionReturn(i) ==
  /\ strategy.sess[i].pc = "awaiting"
  /\ strategy' = [strategy EXCEPT
                    !.sess[i].reported =
                       IF strategy.downloaded_files # << >>
                         THEN Some(strategy.downloaded_files) ELSE None,
                    !.sess[i].pc = "returned"]
  /\ UNCHANGED << crawlVars, bm, many, filter, helper >>

InitShared ==
  /\ NoSession
  /\ check_robots_txt = "off"
  /\ bm = BMStarted
  /\ many = ManyIdle
  /\ strategy = StrategyIdle
  /\ filter = FilterIdle
  /\ helper = HelperIdle

NextShared ==
  \E i \in Sessions :
    \/ SessionBegin(i)
    \/ SessionDownloadStart(i)
    \/ SessionDownloadFinish(i)
    \/ SessionReturn(i)

SpecShared == InitShared /\ [][NextShared]_vars

\* C12: concurrent sessions share no mutable state that shows in their
\* results: the downloaded-files list a session reports holds exactly the
\* files its own page downloaded (None when there were none), whatever the
\* other sessions did meanwhile.
C12_OwnDownloadsOnly ==
  \A i \in Sessions :
    strategy.sess[i].pc = "returned" =>
      strategy.sess[i].reported =
        IF strategy.sess[i].own # << >>
          THEN Some(strategy.sess[i].own) ELSE None

(***************************************************************************)
(* Further properties of one capture session (SpecCrawl).                  *)
(***************************************************************************)
\* the screenshot stage has acted in a session whose navigation produced a
\* response
ScreenshotStageRan ==
  /\ config.screenshot
  /\ history.nav = "response"
  /\ \/ history.raised_in = "screenshot"
     \/ pc \in {"finalize", "return"}

\* C13: when a screenshot is requested and navigation produced a response,
\* the screenshot stage yields an image (a capture or the placeholder): no
\* failure inside the screenshot subsystem propagates out of the stage or
\* leaves the session without an image.
C13_ScreenshotAlwaysImage ==
  ScreenshotStageRan =>
    /\ history.raised_in # "screenshot"
    /\ screenshot_data \in {"image", "placeholder"}

(***************************************************************************)
(* content_filter_strategy.py: the relevance filters as functions of the   *)
(* input HTML.  A document is a forest of elements; an element has a tag   *)
(* name, the length of its own text (stripped) and its child elements.     *)
(* Only div and nav elements have children here.  Lengths are in           *)
(* characters, scores and thresholds in thousandths, tag weights in        *)
(* hundredths.                                                             *)
(***************************************************************************)
\* elements in one document
MaxNodes == 3
\* calls of filter_content on one filter instance
MaxFilterCalls == 2

\* lines 28 and 168: min_word_count * 3
MinTextLen == 5 * 3
\* line 28: min_word_count
MinWordCount == 5

TagNames == {"p", "a", "nav", "div"}

\* the texts an element of the model may hold directly: 4 characters are one
\* word, 20 and 24 characters are five words
Texts(name) ==
  CASE name = "p"   -> {4, 20, 24}
    [] name = "a"   -> {4, 20}
    [] name = "nav" -> {20}
    [] name = "div" -> {0, 20}

WordsOf(text) == IF text >= 20 THEN 5 ELSE IF text > 0 THEN 1 ELSE 0

RECURSIVE NodeCount(_)
NodeCount(f) ==
  IF f = << >> THEN 0
  ELSE 1 + NodeCount(Head(f).kids) + NodeCount(Tail(f))

\* the elements a tag name admits with the given children
ElementsWith(kids) ==
  { [name |-> nm, text |-> t, kids |-> kids] :
      nm \in (IF kids = << >> THEN TagNames ELSE {"div", "nav"}),
      t \in {0, 4, 20, 24} }

\* the forests of at most n elements: a first element whose children have
\* at most a elements, followed by a forest of at most n - 1 - a elements
RECURSIVE Forests(_)
Forests(n) ==
  IF n = 0 THEN { << >> }
  ELSE Forests(n - 1) \cup
       UNION { { << e >> \o rest :
                   e \in UNION { { x \in ElementsWith(k) :
                                     x.text \in Texts(x.name) } :
                                 k \in Forests(a) },
                   rest \in Forests(n - 1 - a) } :
               a \in 0..(n - 1) }

\* the input of filter_content: None, the empty string, a string with no
\* element in it (blank), or markup
Htmls ==
  { [kind |-> k, nodes |-> << >>] : k \in {"none", "empty", "blank"} }
  \cup { [kind |-> "markup", nodes |-> f] : f \in Forests(MaxNodes) \ {<< >>} }

\* BeautifulSoup(html, "lxml"): the parser wraps the elements in a body; a
\* string without any element yields a tree with no body
NoBody == {}
Parse(html) ==
  IF html.kind = "markup"
    THEN Some([name |-> "body", text |-> 0, kids |-> html.nodes])
    ELSE NoBody

\* lines 19-22, 35: is_excluded by tag name
ExcludedTags == {"nav"}

\* lines 142-144: every excluded element is removed with its subtree
RECURSIVE RemoveExcluded(_)
RemoveExcluded(f) ==
  IF f = << >> THEN << >>
  ELSE IF Head(f).name \in ExcludedTags
    THEN RemoveExcluded(Tail(f))
    ELSE << [Head(f) EXCEPT !.kids = RemoveExcluded(@)] >>
           \o RemoveExcluded(Tail(f))

\* len(node.get_text(strip=True)) of the elements of a forest
RECURSIVE TextLen(_)
TextLen(f) ==
  IF f = << >> THEN 0
  ELSE Head(f).text + TextLen(Head(f).kids) + TextLen(Tail(f))

NameLen(name) == CASE name \in {"p", "a"}     -> 1
                   [] name \in {"div", "nav"} -> 3
                   [] name = "body"           -> 4

\* len(str(node)) of the elements of a forest: <name> ... </name>
RECURSIVE StrLen(_)
StrLen(f) ==
  IF f = << >> THEN 0
  ELSE 2 * NameLen(Head(f).name) + 5 + Head(f).text
         + StrLen(Head(f).kids) + StrLen(Tail(f))

\* line 174: the text of the direct `a` children
RECURSIVE LinkTextLen(_)
LinkTextLen(f) ==
  IF f = << >> THEN 0
  ELSE (IF Head(f).name = "a" THEN TextLen(<< Head(f) >>) ELSE 0)
         + LinkTextLen(Tail(f))

\* lines 130-134: the default tag weights of the tags of the model, and a
\* configuration with every weight cleared
DefaultTagWeights == [name \in {"p", "div"} |->
                        IF name = "p" THEN 100 ELSE 80]
TagWeightConfigs == { DefaultTagWeights, [name \in {"p", "div"} |-> 0] }

\* line 177: self.tag_weights.get(node.name, 0.7)
TagWeight(weights, name) ==
  IF name \in DOMAIN weights THEN weights[name] ELSE 70

\* (variant of ScoreBelow) short elements always count as below the threshold
ScoreBelowShortAlways(node, threshold, weights) ==
  LET tl  == TextLen(<< node >>)
      tot == StrLen(<< node >>)
      ll  == LinkTextLen(node.kids)
  IN  \/ tl < MinTextLen
      \/ 1200 * tl * tl + 8 * TagWeight(weights, node.name) * (tl - ll) * tot
           < threshold * tot * tl

\* lines 159-160, 163-180: _compute_node_score(node) < self.threshold, with
\*   score = text_density * 1.2 + (1 - link_density) * 0.8 * tag_weight
\* compared after multiplying both sides by 1000 * total_len * text_len; a
\* short element scores 0.0
ScoreBelow(node, threshold, weights) ==
  LET tl  == TextLen(<< node >>)
      tot == StrLen(<< node >>)
      ll  == LinkTextLen(node.kids)
  IN  IF tl < MinTextLen
        THEN 0 < threshold
        ELSE 1200 * tl * tl
               + 8 * TagWeight(weights, node.name) * (tl - ll) * tot
             < threshold * tot * tl

\* (variant of PruneForest) the element is scored before its children are
\* visited
RECURSIVE PruneForestTopDown(_, _, _)
PruneForestTopDown(f, threshold, weights) ==
  IF f = << >> THEN << >>
  ELSE (IF ScoreBelow(Head(f), threshold, weights)
          THEN << >>
          ELSE << [Head(f) EXCEPT
                     !.kids = PruneForestTopDown(@, threshold, weights)] >>)
       \o PruneForestTopDown(Tail(f), threshold, weights)

\* lines 154-161: _prune_tree over the elements of a forest: the children
\* first, then the element itself; what is left of the forest
RECURSIVE PruneForest(_, _, _)
PruneForest(f, threshold, weights) ==
  IF f = << >> THEN << >>
  ELSE LET node == [Head(f) EXCEPT
                      !.kids = PruneForest(@, threshold, weights)]
       IN  (IF ScoreBelow(node, threshold, weights)
              THEN << >> ELSE << node >>)
           \o PruneForest(Tail(f), threshold, weights)

\* how a call of filter_content ends
Fragments(out) == [raised |-> "none", out |-> out]
FilterRaised(e) == [raised |-> e, out |-> << >>]

\* lines 136-152: PruningContentFilter.filter_content.  When the body itself
\* is pruned (161) soup.body is None at line 150 and find_all raises
\* AttributeError.
PruningFilterContent(html, threshold, weights) ==
  IF html.kind \in {"none", "empty"} THEN Fragments(<< >>)
  ELSE LET soup == Parse(html) IN
       IF soup = NoBody THEN Fragments(<< >>)
       ELSE LET body   == [The(soup) EXCEPT !.kids = RemoveExcluded(@)]
                pruned == PruneForest(<< body >>, threshold, weights)
            IN  IF pruned = << >>
                  THEN FilterRaised("AttributeError")
                  ELSE Fragments(pruned[1].kids)

\* find_all: the elements of a forest in document order
RECURSIVE Flatten(_)
Flatten(f) ==
  IF f = << >> THEN << >>
  ELSE << Head(f) >> \o Flatten(Head(f).kids) \o Flatten(Tail(f))

\* line 62: the significant tags among the tags of the model
SignificantTags == {"p"}

\* lines 60-71: extract_text_chunks: (index, element) of every significant,
\* not excluded element with at least min_word_count words
RECURSIVE ChunksFrom(_, _)
ChunksFrom(found, i) ==
  IF found = << >> THEN << >>
  ELSE (IF /\ Head(found).name \notin ExcludedTags
           /\ WordsOf(TextLen(<< Head(found) >>)) >= MinWordCount
          THEN << [index |-> i, tag |-> Head(found)] >> ELSE << >>)
       \o ChunksFrom(Tail(found), i + 1)

ExtractTextChunks(body) ==
  ChunksFrom(SelectSeq(Flatten(body.kids),
                       LAMBDA n : n.name \in SignificantTags), 0)

\* lines 44-58: extract_page_query: the user's query when there is one; the
\* documents of the model have no title, h1 or meta description
ExtractPageQuery(user_query) == IF user_query # "None" THEN user_query ELSE ""

\* line 123: selected_chunks.sort(key=index), as an insertion sort (stable)
RECURSIVE InsertByIndex(_, _)
InsertByIndex(c, sorted) ==
  IF sorted = << >> THEN << c >>
  ELSE IF Head(sorted).index <= c.index
    THEN << Head(sorted) >> \o InsertByIndex(c, Tail(sorted))
    ELSE << c >> \o sorted

RECURSIVE SortByIndex(_)
SortByIndex(chunks) ==
  IF chunks = << >> THEN << >>
  ELSE LET n == Len(chunks)
       IN  InsertByIndex(chunks[n], SortByIndex(SubSeq(chunks, 1, n - 1)))

\* (variant of Selected) a chunk scoring exactly the threshold is dropped
SelectedAboveOnly(score, threshold) == score > threshold

\* line 119: if score >= self.bm25_threshold
Selected(score, threshold) == score >= threshold

\* lines 94-124: BM25ContentFilter.filter_content.  `scores` stands for
\* BM25Okapi(corpus).get_scores(query): a score for each chunk text.
BM25FilterContent(html, threshold, user_query, scores) ==
  IF html.kind \in {"none", "empty"} THEN Fragments(<< >>)
  ELSE LET soup == Parse(html) IN
       IF soup = NoBody THEN Fragments(<< >>)
       ELSE IF ExtractPageQuery(user_query) = "" THEN Fragments(<< >>)
       ELSE LET candidates == ExtractTextChunks(The(soup))
                selected   == SelectSeq(candidates,
                                LAMBDA c : Selected(scores[c.tag.text],
                                                    threshold))
                sorted     == SortByIndex(selected)
            IN  IF candidates = << >> THEN Fragments(<< >>)
                ELSE Fragments([k \in 1..Len(sorted) |-> sorted[k].tag])

\* thresholds of the model, in thousandths: negative, zero, the default of
\* each filter (0.45 and 0.5), one that some elements with enough text miss,
\* and one above every score
PruningThresholds == {0 - 500, 0, 450, 1000, 2000}
BM25Thresholds == {0, 500}

\* the texts a chunk may have, and the scores the ranking may give them
ChunkTexts == {20, 24}
BM25Scores == [ChunkTexts -> {0, 500}]

PruningFilters ==
  [ kind : {"pruning"}, html : Htmls, threshold : PruningThresholds,
    tag_weights : TagWeightConfigs, user_query : {"None"},
    scores : {[t \in ChunkTexts |-> 0]}, outs : {<< >>} ]

BM25Filters ==
  [ kind : {"bm25"}, html : Htmls, threshold : BM25Thresholds,
    tag_weights : {DefaultTagWeights}, user_query : {"None", "q"},
    scores : BM25Scores, outs : {<< >>} ]

\* (variant of InstanceAfterCall) a call that leaves a raised threshold behind
InstanceThresholdRaised(f) == [f EXCEPT !.threshold = 2000]

\* filter_content assigns no attribute of self and parses its input anew
\* (98, 140): the instance and the input are as before the call
InstanceAfterCall(f) == f

PruningCall ==
  /\ filter.kind = "pruning"
  /\ Len(filter.outs) < MaxFilterCalls
  /\ filter' = [InstanceAfterCall(filter) EXCEPT
                  !.outs = Append(@, PruningFilterContent(
                              filter.html, filter.threshold,
                              filter.tag_weights))]
  /\ UNCHANGED << crawlVars, bm, many, strategy, helper >>

BM25Call ==
  /\ filter.kind = "bm25"
  /\ Len(filter.outs) < MaxFilterCalls
  /\ filter' = [InstanceAfterCall(filter) EXCEPT
                  !.outs = Append(@, BM25FilterContent(
                              filter.html, filter.threshold,
                              filter.user_query, filter.scores))]
  /\ UNCHANGED << crawlVars, bm, many, strategy, helper >>

InitFilter ==
  /\ NoSession
  /\ check_robots_txt = "off"
  /\ bm = BMInit
  /\ many = ManyIdle
  /\ strategy = StrategyIdle
  /\ filter \in PruningFilters \cup BM25Filters
  /\ helper = HelperIdle

NextFilter == PruningCall \/ BM25Call

SpecFilter == InitFilter /\ [][NextFilter]_vars

(***************************************************************************)
(* Properties of the relevance filters (SpecFilter).                       *)
(***************************************************************************)
\* some element of the forest, at any depth, has less visible text than the
\* minimum text length
RECURSIVE HasShortNode(_)
HasShortNode(f) ==
  /\ f # << >>
  /\ \/ TextLen(<< Head(f) >>) < MinTextLen
     \/ HasShortNode(Head(f).kids)
     \/ HasShortNode(Tail(f))

\* C14: for every threshold (zero and negative ones included) and every
\* tag-weight configuration, the output of PruningContentFilter.filter_content
\* holds no element whose visible text is shorter than the minimum text
\* length.
C14_NoShortNodeInOutput ==
  filter.kind = "pruning" =>
    \A k \in 1..Len(filter.outs) : ~ HasShortNode(filter.outs[k].out)

\* C15: neither relevance filter ever raises: filter_content returns an empty
\* sequence for empty or absent HTML, and a possibly empty sequence of
\* fragments for every other document, also when the body itself scores
\* below the pruning threshold or when there is no body.
C15_FiltersNeverRaise ==
  \A k \in 1..Len(filter.outs) :
    /\ filter.outs[k].raised = "none"
    /\ filter.html.kind \in {"none", "empty"} => filter.outs[k].out = << >>

C17_ArtifactsOnlyIfToggled ==
  ret # None =>
    LET r == The(ret) IN
    /\ (r.network_requests # None) <=> config.capture_network_requests
    /\ (r.console_messages # None) <=> config.capture_console_messages
    /\ ~ config.screenshot => r.screenshot = "None"
    /\ ~ config.capture_mhtml => r.mhtml_data = "None"
    /\ ~ config.fetch_ssl_certificate => r.ssl_certificate = "None"

\* crawl() returned a response with the network capture requested and events
\* captured, and with console capture and screenshot not requested
C17_Witness ==
  /\ ret # None
  /\ config.capture_network_requests
  /\ captured_requests # << >>
  /\ ~ config.capture_console_messages
  /\ ~ config.screenshot
  /\ The(ret).network_requests = Some(captured_requests)

\* the listeners the configuration asks for
ExpectedListeners ==
  (IF config.accept_downloads THEN {"download"} ELSE {})
  \cup (IF config.capture_network_requests
          THEN {"request", "response"} ELSE {})
  \cup (IF config.capture_console_messages
          THEN {"console", "pageerror"} ELSE {})

\* crawl() is past the point where navigation is issued and has not reached
\* its finally block
NavigationIssued ==
  pc \in (Awaiting \ {"goto"}) \cup {"return", "except_error", "except_all"}

\* C18: within a session every listener that gets attached is attached before
\* navigation is issued and is removed only after the capture stages have
\* ended; after the session has ended no listener remains attached.
C18_ListenersBracketStages ==
  /\ (pc = "goto" \/ NavigationIssued) => listeners = ExpectedListeners
  /\ (pc \in {"crawl_exit", "done"} /\ ~ history.close_failed)
       => listeners = {}

\* C19: cleanup removes the listeners, then closes the page, then closes the
\* context, each step guarded: when closing the page raises, the context is
\* closed all the same.
C19_CleanupGuarded ==
  /\ resources.page_closed > 0 => listeners = {}
  /\ resources.context_closed > 0 => resources.page_closed > 0
  /\ ( /\ pc \in {"crawl_exit", "done"}
       /\ history.close_failed
       /\ resources.page_closed = 0 )
     => resources.context_closed = 1

\* the stages from navigation on run in the listed order, and cleanup last:
\* while crawl() is at a stage, no later stage has left its mark
LaterStagesUntouched ==
  /\ pc \in { "identity", "new_context", "new_page", "download_listener",
              "init_script", "simulate", "listeners", "ssl", "goto" }
       => /\ response = None
          /\ history.nav = "none"
          /\ js_execution_result = None
  /\ pc \in { "identity", "new_context", "new_page", "download_listener",
              "init_script", "simulate", "listeners" }
       => ssl_cert = "unbound"
  /\ pc \in { "identity", "new_context", "new_page", "download_listener",
              "init_script", "simulate", "listeners", "ssl", "goto", "js",
              "overlay", "wait", "iframes", "mhtml", "screenshot",
              "finalize" }
       => /\ final_html = "unbound"
          /\ \A s \in history.degraded : IndexOf(s) < IndexOf(pc)
          /\ resources.page_closed = 0
          /\ resources.context_closed = 0
  /\ pc \in { "ssl", "goto", "js", "overlay", "wait", "iframes", "mhtml" }
       => screenshot_data = "None"
  /\ pc \in { "ssl", "goto", "js", "overlay", "wait", "iframes" }
       => mhtml_data = "unbound"
  /\ pc \in { "identity", "new_context" } => ~ resources.context
  /\ pc \in { "identity", "new_context", "new_page" } => ~ resources.page
  /\ pc \in { "identity", "new_context", "new_page", "download_listener" }
       => listeners = {}

MaxScripts == 3

\* the texts of the user scripts
ScriptTexts == {"a", "b"}

\* js_code: Union[str, List[str]]
JsCodes ==
  [ is_str : {TRUE}, text : ScriptTexts ] \cup
  [ is_str : {FALSE},
    list : UNION { [1..n -> ScriptTexts] : n \in 0..MaxScripts } ]

\* scripts = [js_code] if isinstance(js_code, str) else js_code
ScriptsOf(js_code) ==
  IF js_code.is_str THEN << js_code.text >> ELSE js_code.list

\* robust_execute_user_script(page, js_code), about to run
ScriptCalls ==
  { [ kind |-> "scripts", pc |-> "begin", js_code |-> j, scripts |-> << >>,
      i |-> 0, results |-> << >>, evaluated |-> << >>, raised |-> {},
      idle_failed |-> {}, delay_failed |-> {}, ret |-> {} ] : j \in JsCodes }

\* the loop moves to the next script, or leaves when there is none
NextScript(h) ==
  [ h EXCEPT !.i = @ + 1,
             !.pc = IF h.i + 1 > Len(h.scripts) THEN "return" ELSE "evaluate" ]

\* results = []; scripts = ...; for script in scripts:
ScriptsBegin ==
  /\ helper.kind = "scripts"
  /\ helper.pc = "begin"
  /\ helper' = NextScript([ helper EXCEPT !.scripts = ScriptsOf(helper.js_code),
                                          !.results = << >> ])
  /\ UNCHANGED << crawlVars, bm, many, strategy, filter >>

\* await page.evaluate(script): returns, or raises and the script's entry
\* is appended by the outer handler
ScriptEvaluate ==
  /\ helper.kind = "scripts"
  /\ helper.pc = "evaluate"
  /\ LET script == helper.scripts[helper.i]
         ran == [ helper EXCEPT !.evaluated = Append(@, script) ]
     IN \/ helper' = [ ran EXCEPT !.pc = "settle" ]
        \/ helper' = NextScript(
             [ ran EXCEPT !.raised = @ \cup {helper.i},
                          !.results = Append(@, [ success |-> FALSE,
                                                  script |-> script,
                                                  error |-> "str(e)" ]) ])
  /\ UNCHANGED << crawlVars, bm, many, strategy, filter >>

\* a variant of the settle that blames the script for a failed idle wait
SettledEntryBlamesScript(script, idle, delay) ==
  [ success |-> idle = "ok", script |-> script, error |-> "None" ]

\* the entry appended after the settle, whatever the two waits did
SettledEntry(script, idle, delay) ==
  [ success |-> TRUE, script |-> script, error |-> "None" ]

\* wait_for_load_state("networkidle"); on failure wait_for_timeout(3000);
\* on failure pass; then results.append(...)
ScriptSettle ==
  /\ helper.kind = "scripts"
  /\ helper.pc = "settle"
  /\ \E idle \in {"ok", "raise"} :
       \E delay \in IF idle = "ok" THEN {"skipped"} ELSE {"ok", "raise"} :
         helper' = NextScript(
           [ helper EXCEPT
               !.idle_failed = IF idle = "raise" THEN @ \cup {helper.i} ELSE @,
               !.delay_failed = IF delay = "raise" THEN @ \cup {helper.i} ELSE @,
               !.results = Append(@, SettledEntry(helper.scripts[helper.i],
                                                  idle, delay)) ])
  /\ UNCHANGED << crawlVars, bm, many, strategy, filter >>

\* return {"success": all(...), "results": results}
ScriptsReturn ==
  /\ helper.kind = "scripts"
  /\ helper.pc = "return"
  /\ helper' = [ helper EXCEPT
       !.pc = "done",
       !.ret = Some([ success |-> \A k \in 1..Len(helper.results) :
                                     helper.results[k].success,
                      results |-> helper.results ]) ]
  /\ UNCHANGED << crawlVars, bm, many, strategy, filter >>

(***************************************************************************)
(* smart_wait (259-301) and csp_compliant_wait (228-257).  A wait_for      *)
(* string is a sequence of tokens; time is counted in ticks of 100 ms.     *)
(***************************************************************************)
\* a wait_for string has at most this many tokens
MaxWaitLen == 2
\* the timeout is at most this many ticks of 100 ms
MaxWaitTicks == 2

\* the tokens of a wait_for string: white space, the two prefixes, the two
\* beginnings of a function expression, any other text
WaitTokens == {" ", "js:", "css:", "()", "function", "text"}

WaitFors == UNION { [1..n -> WaitTokens] : n \in 0..MaxWaitLen }

\* str.strip()
RECURSIVE Strip(_)
Strip(s) ==
  IF s = << >> THEN s
  ELSE IF Head(s) = " " THEN Strip(Tail(s))
  ELSE IF s[Len(s)] = " " THEN Strip(SubSeq(s, 1, Len(s) - 1))
  ELSE s

\* str.startswith(token)
StartsWith(s, token) == s # << >> /\ Head(s) = token

\* smart_wait(page, wait_for, timeout), about to run
WaitCalls ==
  { [ kind |-> "wait", pc |-> "begin", wait_for |-> w, timeout |-> t,
      branch |-> "none", expr |-> << >>, as_body |-> FALSE,
      attempts |-> << >>, selector |-> "none", polls |-> << >>,
      pauses |-> 0, elapsed |-> 0, result |-> "none", expired |-> FALSE,
      outcome |-> "none" ] : w \in WaitFors, t \in 0..MaxWaitTicks }

\* lines 260-263, 268-269, 278: the branch taken and the expression it uses
SmartWaitBegin ==
  /\ helper.kind = "wait"
  /\ helper.pc = "begin"
  /\ LET w == Strip(helper.wait_for)
     IN helper' =
          IF StartsWith(w, "js:")
            THEN [ helper EXCEPT !.branch = "js", !.expr = Strip(Tail(w)),
                                 !.pc = "evaluate" ]
          ELSE IF StartsWith(w, "css:")
            THEN [ helper EXCEPT !.branch = "css", !.expr = Strip(Tail(w)),
                                 !.pc = "selector" ]
          ELSE IF StartsWith(w, "()") \/ StartsWith(w, "function")
            THEN [ helper EXCEPT !.branch = "fn", !.expr = w,
                                 !.pc = "evaluate" ]
          ELSE [ helper EXCEPT !.branch = "plain", !.expr = w,
                               !.pc = "selector" ]
  /\ UNCHANGED << crawlVars, bm, many, strategy, filter >>

\* a variant of the handlers of wait_for_selector that reports every
\* failure of the selector as a timeout
SelectorOutcomeAllTimeout(branch, o) ==
  IF o = "found" THEN "returned" ELSE "PwTimeout"

\* a variant that retries as a function body after a timeout as well
SelectorOutcomeRetryOnTimeout(branch, o) ==
  IF o = "found" THEN "returned"
  ELSE IF branch = "plain" THEN "fallback"
  ELSE IF o = "PwTimeout" THEN "PwTimeout" ELSE "ValueError"

\* lines 271-276 and 285-290: what smart_wait does with the outcome of
\* page.wait_for_selector (TimeoutError is matched before Error)
SelectorOutcome(branch, o) ==
  IF o = "found" THEN "returned"
  ELSE IF o = "PwTimeout" THEN "PwTimeout"
  ELSE IF branch = "css" THEN "ValueError"
  ELSE "fallback"

\* await page.wait_for_selector(selector, timeout=timeout): the element
\* appears, the wait times out, or the page rejects the selector
WaitForSelector ==
  /\ helper.kind = "wait"
  /\ helper.pc = "selector"
  /\ \E o \in {"found", "PwTimeout", "Error"} :
       LET next == SelectorOutcome(helper.branch, o)
           tried == [ helper EXCEPT !.selector = o,
                                    !.attempts = Append(@, "selector"),
                                    !.expired = (o = "PwTimeout") ]
       IN helper' =
            IF next = "fallback"
              THEN [ tried EXCEPT !.branch = "fallback", !.as_body = TRUE,
                                  !.pc = "evaluate" ]
              ELSE [ tried EXCEPT !.outcome = next, !.pc = "done" ]
  /\ UNCHANGED << crawlVars, bm, many, strategy, filter >>

\* lines 265-266, 280-281 and 293-301: what smart_wait does with the
\* result of csp_compliant_wait; the timeout raised at 294 is caught at 296
WaitOutcome(branch, result) ==
  IF result = "true" THEN "returned"
  ELSE IF branch = "fallback" THEN "ValueError"
  ELSE "PwTimeout"

\* csp_compliant_wait returns `result` to smart_wait
CspReturn(h, result) ==
  [ h EXCEPT !.result = result, !.pc = "done",
             !.outcome = WaitOutcome(h.branch, result) ]

\* lines 229-249: page.evaluate(wrapper_js) starts the wrapper, or raises
\* because the expression is not valid code (251-257: return False)
CspEvaluate ==
  /\ helper.kind = "wait"
  /\ helper.pc = "evaluate"
  /\ LET tried == [ helper EXCEPT !.attempts = Append(@, "predicate") ]
     IN \/ helper' = [ tried EXCEPT !.pc = "poll" ]
        \/ helper' = CspReturn([ tried EXCEPT !.polls = << "invalid" >> ],
                               "false")
  /\ UNCHANGED << crawlVars, bm, many, strategy, filter >>

\* a variant of the wrapper's loop that looks at the clock first
PollResultDeadlineFirst(v, elapsed, timeout) ==
  IF elapsed >= timeout THEN "false"
  ELSE IF v = "true" THEN "true"
  ELSE IF v = "throws" THEN "false"
  ELSE "pause"

\* lines 235-245 and 251-257: one turn of the wrapper's loop on the value
\* of the predicate; a throw is re-thrown, caught at 251 and returned False
PollResult(v, elapsed, timeout) ==
  IF v = "true" THEN "true"
  ELSE IF v = "throws" THEN "false"
  ELSE IF elapsed > timeout THEN "false"
  ELSE "pause"

\* if (await userFunction()) return true; if (now - start > timeout)
\* return false: the evaluation takes no tick or one
PollPredicate ==
  /\ helper.kind = "wait"
  /\ helper.pc = "poll"
  /\ \E v \in {"true", "false", "throws"} : \E d \in {0, 1} :
       LET polled == [ helper EXCEPT !.polls = Append(@, v),
                                     !.elapsed = @ + d ]
           r == PollResult(v, polled.elapsed, helper.timeout)
       IN helper' =
            IF r = "pause" THEN [ polled EXCEPT !.pc = "pause" ]
            ELSE CspReturn([ polled EXCEPT
                               !.expired = (v = "false" /\ r = "false") ], r)
  /\ UNCHANGED << crawlVars, bm, many, strategy, filter >>

\* await new Promise(resolve => setTimeout(resolve, 100))
PollPause ==
  /\ helper.kind = "wait"
  /\ helper.pc = "pause"
  /\ helper' = [ helper EXCEPT !.pauses = @ + 1, !.elapsed = @ + 1,
                               !.pc = "poll" ]
  /\ UNCHANGED << crawlVars, bm, many, strategy, filter >>

(***************************************************************************)
(* process_iframes (162-226).                                              *)
(***************************************************************************)
\* a page holds at most this many iframes
MaxIframes == 3

\* process_iframes(page) on a page with n iframes, about to run
IframeCalls ==
  { [ kind |-> "iframes", pc |-> "list", n |-> n, i |-> 0,
      attempted |-> << >>, outcomes |-> << >>, replaced |-> {},
      ret |-> "none" ] : n \in 0..MaxIframes }

\* line 164: page.query_selector_all("iframe"), outside every try; with no
\* iframe the page is returned at once (166-168)
QuerySelectorAll ==
  /\ helper.kind = "iframes"
  /\ helper.pc = "list"
  /\ \/ helper' = [ helper EXCEPT !.pc = "raised" ]
     \/ helper' = IF helper.n = 0
                    THEN [ helper EXCEPT !.pc = "returned", !.ret = "page" ]
                    ELSE [ helper EXCEPT !.pc = "loop" ]
  /\ UNCHANGED << crawlVars, bm, many, strategy, filter >>

\* what one turn of the loop can come to: the iframe is replaced by its
\* content (172-198), it has no content frame (199-204), or one of the
\* awaits raises a timeout (205), another Playwright error (211) or
\* any other exception (218)
IframeOutcomes == {"replaced", "no_frame", "PwTimeout", "Error", "Other"}

\* a variant of the loop that gives up at the first failing iframe
IframeNextStopAtFailure(i, n, o) ==
  IF o \in {"replaced", "no_frame"} THEN i + 1 ELSE n

\* the three handlers only log: the loop goes on with the next index
IframeNext(i, n, o) == i + 1

\* lines 170-224: the turn of the loop for iframe i
IframeStep ==
  /\ helper.kind = "iframes"
  /\ helper.pc = "loop"
  /\ \E o \in IframeOutcomes :
       LET next == IframeNext(helper.i, helper.n, o)
       IN helper' = [ helper EXCEPT
            !.attempted = Append(@, helper.i),
            !.outcomes = Append(@, o),
            !.replaced = IF o = "replaced" THEN @ \cup {helper.i} ELSE @,
            !.i = next,
            !.pc = IF next >= helper.n THEN "return" ELSE "loop" ]
  /\ UNCHANGED << crawlVars, bm, many, strategy, filter >>

\* lines 225-226: return page
IframesReturn ==
  /\ helper.kind = "iframes"
  /\ helper.pc = "return"
  /\ helper' = [ helper EXCEPT !.pc = "returned", !.ret = "page" ]
  /\ UNCHANGED << crawlVars, bm, many, strategy, filter >>

(***************************************************************************)
(* take_screenshot (140-160).  Heights are in units of one pixel row.      *)
(***************************************************************************)
\* page heights and thresholds range over 0..MaxHeight
MaxHeight == 3

\* take_screenshot(page, config) on a page of the given height, with the
\* browser configuration's screenshot_height_threshold
ShotCalls ==
  { [ kind |-> "shot", pc |-> "measure", height |-> h, threshold |-> t,
      need_scroll |-> "none", page_height |-> -1, attempted |-> << >>,
      native |-> "none", ret |-> "none" ] :
      h \in 0..MaxHeight, t \in 0..MaxHeight }

\* lines 141-144: page_need_scroll answers (True when its evaluation
\* fails), then get_page_dimensions measures the page or raises
MeasurePage ==
  /\ helper.kind = "shot"
  /\ helper.pc = "measure"
  /\ \E b \in BOOLEAN :
       \/ helper' = [ helper EXCEPT !.need_scroll = b, !.pc = "raised" ]
       \/ helper' = [ helper EXCEPT !.need_scroll = b,
                                    !.page_height = helper.height,
                                    !.pc = "choose" ]
  /\ UNCHANGED << crawlVars, bm, many, strategy, filter >>

\* a variant of the decision that sends a page of exactly the threshold's
\* height to the segmented path
UseScrollerFromThreshold(page_height, threshold) == page_height >= threshold

\* line 146: if page_height > self.browser_config.screenshot_height_threshold
UseScroller(page_height, threshold) == page_height > threshold

\* line 148: take_screenshot_scroller returns the stitched image, or the
\* placeholder when anything in it fails (90-138)
ScrollerCapture ==
  /\ helper.kind = "shot"
  /\ helper.pc = "choose"
  /\ UseScroller(helper.page_height, helper.threshold)
  /\ \E r \in {"stitched", "placeholder"} :
       helper' = [ helper EXCEPT !.attempted = Append(@, "scroller"),
                                 !.ret = r, !.pc = "returned" ]
  /\ UNCHANGED << crawlVars, bm, many, strategy, filter >>

\* lines 151-159: page.screenshot(full_page=True) returns the image,
\* raises a Playwright Error (caught at 153) or raises something else
NativeCapture ==
  /\ helper.kind = "shot"
  /\ helper.pc = "choose"
  /\ ~ UseScroller(helper.page_height, helper.threshold)
  /\ \E o \in {"ok", "Error", "Other"} :
       LET tried == [ helper EXCEPT !.attempted = Append(@, "native"),
                                    !.native = o ]
       IN helper' = CASE o = "ok" ->
                           [ tried EXCEPT !.ret = "full_page",
                                          !.pc = "returned" ]
                      [] o = "Error" -> [ tried EXCEPT !.pc = "naive" ]
                      [] OTHER -> [ tried EXCEPT !.pc = "raised" ]
  /\ UNCHANGED << crawlVars, bm, many, strategy, filter >>

\* line 160: take_screenshot_naive returns the viewport, or the
\* placeholder when the capture fails (75-88)
NaiveCapture ==
  /\ helper.kind = "shot"
  /\ helper.pc = "naive"
  /\ \E r \in {"viewport", "placeholder"} :
       helper' = [ helper EXCEPT !.attempted = Append(@, "naive"),
                                 !.ret = r, !.pc = "returned" ]
  /\ UNCHANGED << crawlVars, bm, many, strategy, filter >>

(***************************************************************************)
(* take_screenshot_scroller (90-138).  Heights are in pixel rows.          *)
(***************************************************************************)
\* the pages of the segmented capture and of the scan are at most this high
MaxScanHeight == 5

\* take_screenshot_scroller(page, threshold) on a page of the given height
\* under a viewport of the given height, about to run
ScrollerCalls ==
  { [ kind |-> "scroller", pc |-> "measure", height |-> h, viewport |-> v,
      page_height |-> -1, viewport_height |-> -1, num_segments |-> -1,
      i |-> 0, y_offsets |-> << >>, segments |-> << >>, offset |-> 0,
      pasted |-> << >>, stitched_height |-> -1, raised |-> FALSE,
      ret |-> "none" ] :
      h \in 0..MaxScanHeight, v \in 0..MaxHeight }

\* lines 123-138: any exception ends in the 800x600 placeholder
ScrollerFails(h, raised) ==
  [ h EXCEPT !.pc = "returned", !.ret = "placeholder", !.raised = raised ]

\* a variant of line 107 that forgets the partial last segment
NumSegmentsFloor(page_height, viewport_height) ==
  page_height \div viewport_height

\* line 107: (page_height // viewport_height)
\*             + (1 if page_height % viewport_height > 0 else 0)
NumSegments(page_height, viewport_height) ==
  (page_height \div viewport_height)
    + (IF page_height % viewport_height > 0 THEN 1 ELSE 0)

\* lines 93-107: measure the page, read the viewport, count the segments;
\* a viewport of height 0 raises ZeroDivisionError at 107
ScrollerMeasure ==
  /\ helper.kind = "scroller"
  /\ helper.pc = "measure"
  /\ \/ helper' = ScrollerFails(helper, TRUE)
     \/ helper' =
          IF helper.viewport = 0
            THEN ScrollerFails([ helper EXCEPT
                                   !.page_height = helper.height,
                                   !.viewport_height = 0 ], FALSE)
            ELSE [ helper EXCEPT
                     !.page_height = helper.height,
                     !.viewport_height = helper.viewport,
                     !.num_segments = NumSegments(helper.height,
                                                  helper.viewport),
                     !.pc = "capture" ]
  /\ UNCHANGED << crawlVars, bm, many, strategy, filter >>

\* lines 109-114: scroll to i * viewport_height and capture the viewport;
\* the captured image is as high as the viewport
SegmentCapture ==
  /\ helper.kind = "scroller"
  /\ helper.pc = "capture"
  /\ helper.i < helper.num_segments
  /\ \/ helper' = ScrollerFails(helper, TRUE)
     \/ helper' = [ helper EXCEPT
          !.y_offsets = Append(@, helper.i * helper.viewport_height),
          !.segments = Append(@, [ height |-> helper.viewport_height ]),
          !.i = @ + 1 ]
  /\ UNCHANGED << crawlVars, bm, many, strategy, filter >>

\* line 116: Image.new("RGB", (segments[0].width, page_height)); with no
\* segment segments[0] raises IndexError
StitchBegin ==
  /\ helper.kind = "scroller"
  /\ helper.pc = "capture"
  /\ helper.i >= helper.num_segments
  /\ helper' = IF helper.segments = << >>
                 THEN ScrollerFails(helper, FALSE)
                 ELSE [ helper EXCEPT !.stitched_height = helper.page_height,
                                      !.offset = 0, !.i = 1, !.pc = "paste" ]
  /\ UNCHANGED << crawlVars, bm, many, strategy, filter >>

\* line 119: paste_height = min(img.height, page_height - offset)
PasteHeight(img_height, page_height, offset) ==
  IF img_height <= page_height - offset THEN img_height
                                        ELSE page_height - offset

\* lines 118-127: paste the next segment at the running offset, cropped to
\* paste_height; after the last one the stitched image is returned
PasteSegment ==
  /\ helper.kind = "scroller"
  /\ helper.pc = "paste"
  /\ LET paste_height == PasteHeight(helper.segments[helper.i].height,
                                     helper.page_height, helper.offset)
         last == helper.i = Len(helper.segments)
     IN helper' = [ helper EXCEPT
          !.pasted = Append(@, [ at |-> helper.offset,
                                 height |-> paste_height ]),
          !.offset = @ + paste_height,
          !.i = @ + 1,
          !.pc = IF last THEN "returned" ELSE "paste",
          !.ret = IF last THEN "stitched" ELSE @ ]
  /\ UNCHANGED << crawlVars, bm, many, strategy, filter >>

(***************************************************************************)
(* _handle_full_page_scan (425-463): scroll down one viewport at a time    *)
(* until the measured height is reached, then back to the top.  Heights    *)
(* are in viewport-sized units; the page never measures more than          *)
(* MaxScanHeight.                                                          *)
(***************************************************************************)
\* measured: the first, the largest and the latest height that
\* get_page_dimensions reported; scroll_y: the target of the latest scroll,
\* -1 before any
ScanCalls ==
  [ kind : {"scan"}, pc : {"begin"}, viewport_height : 0..MaxHeight,
    current_position : {0}, total_height : {0},
    measured : {[first |-> 0, top |-> 0, last |-> 0]},
    scroll_y : {0 - 1}, raised : {"none"}, ret : {"none"} ]

\* lines 460-465: `except Exception` logs the failure; the coroutine returns
ScanAbsorbs(h, e) ==
  [ h EXCEPT !.raised = e, !.pc = "done", !.ret = "returned" ]

\* (variant of NextPosition) the position is not capped by the total height
NextPositionUncapped(current_position, viewport_height, total_height) ==
  current_position + viewport_height

\* line 447: min(current_position + viewport_height, total_height)
NextPosition(current_position, viewport_height, total_height) ==
  IF current_position + viewport_height <= total_height
    THEN current_position + viewport_height ELSE total_height

\* lines 428-441: read the viewport height, measure the page
ScanBegin ==
  /\ helper.kind = "scan"
  /\ helper.pc = "begin"
  /\ \/ helper' = ScanAbsorbs(helper, "Error")
     \/ \E h \in 0..MaxScanHeight :
          helper' = [ helper EXCEPT
                        !.total_height = h,
                        !.measured = [first |-> h, top |-> h, last |-> h],
                        !.pc = "loop" ]
  /\ UNCHANGED << crawlVars, bm, many, strategy, filter >>

\* lines 446-448: the loop test, the next position and the scroll to it
ScanScroll ==
  /\ helper.kind = "scan"
  /\ helper.pc = "loop"
  /\ IF helper.current_position < helper.total_height
       THEN LET next == NextPosition(helper.current_position,
                                     helper.viewport_height,
                                     helper.total_height)
            IN  \/ helper' = [ helper EXCEPT !.current_position = next,
                                             !.scroll_y = next,
                                             !.pc = "measure" ]
                \/ helper' = ScanAbsorbs(
                               [helper EXCEPT !.current_position = next],
                               "Error")
       ELSE helper' = [ helper EXCEPT !.pc = "back" ]
  /\ UNCHANGED << crawlVars, bm, many, strategy, filter >>

\* lines 450-456: measure again; a higher page raises the total, otherwise
\* the loop is left once the position has reached the total
ScanMeasure ==
  /\ helper.kind = "scan"
  /\ helper.pc = "measure"
  /\ \/ helper' = ScanAbsorbs(helper, "Error")
     \/ \E new_height \in 0..MaxScanHeight :
          LET seen == [ helper.measured EXCEPT
                          !.last = new_height,
                          !.top  = IF new_height > @ THEN new_height ELSE @ ]
          IN  helper' =
                IF new_height > helper.total_height
                  THEN [ helper EXCEPT !.total_height = new_height,
                                       !.measured = seen, !.pc = "loop" ]
                  ELSE [ helper EXCEPT
                           !.measured = seen,
                           !.pc = IF helper.current_position
                                       >= helper.total_height
                                    THEN "back" ELSE "loop" ]
  /\ UNCHANGED << crawlVars, bm, many, strategy, filter >>

\* line 458: safe_scroll(page, 0, 0), then the coroutine returns
ScanBack ==
  /\ helper.kind = "scan"
  /\ helper.pc = "back"
  /\ \/ helper' = [ helper EXCEPT !.scroll_y = 0, !.pc = "done",
                                  !.ret = "returned" ]
     \/ helper' = ScanAbsorbs(helper, "Error")
  /\ UNCHANGED << crawlVars, bm, many, strategy, filter >>

\* the steps of the scan coroutine
ScanNext == ScanBegin \/ ScanScroll \/ ScanMeasure \/ ScanBack

InitHelpers ==
  /\ NoSession
  /\ check_robots_txt = "off"
  /\ bm = BMInit
  /\ many = ManyIdle
  /\ strategy = StrategyIdle
  /\ filter = FilterIdle
  /\ helper \in ScriptCalls \cup WaitCalls \cup IframeCalls \cup ShotCalls
                \cup ScrollerCalls \cup ScanCalls

NextHelpers ==
  \/ ScriptsBegin \/ ScriptEvaluate \/ ScriptSettle \/ ScriptsReturn
  \/ SmartWaitBegin \/ WaitForSelector \/ CspEvaluate \/ PollPredicate
  \/ PollPause
  \/ QuerySelectorAll \/ IframeStep \/ IframesReturn
  \/ MeasurePage \/ ScrollerCapture \/ NativeCapture \/ NaiveCapture
  \/ ScrollerMeasure \/ SegmentCapture \/ StitchBegin \/ PasteSegment
  \/ ScanBegin \/ ScanScroll \/ ScanMeasure \/ ScanBack

SpecHelpers == InitHelpers /\ [][NextHelpers]_vars

\* the same coroutines, where the event loop resumes the scan whenever the
\* operation it awaits has completed
SpecHelpersFair == SpecHelpers /\ WF_vars(ScanNext)

(***************************************************************************)
(* Properties of the helper coroutines (SpecHelpers).                      *)
(***************************************************************************)
ScriptsDone == helper.kind = "scripts" /\ helper.pc = "done"

\* C21: robust_execute_user_script evaluates every script of js_code, in
\* the given order; its report has exactly one entry per script, in input
\* order; an entry is marked failed exactly when evaluating that script
\* raised (a failed idle wait or fallback delay does not mark it); and
\* the overall flag is the conjunction of the entries' flags.
C21_OneEntryPerScript ==
  ScriptsDone =>
    LET scripts == ScriptsOf(helper.js_code)
        report == The(helper.ret)
    IN /\ helper.evaluated = scripts
       /\ Len(report.results) = Len(scripts)
       /\ \A k \in 1..Len(scripts) :
            /\ report.results[k].script = scripts[k]
            /\ report.results[k].success = (k \notin helper.raised)
       /\ report.success = \A k \in 1..Len(scripts) : report.results[k].success

\* a script raised, a later one ran, and its two settle waits both failed
C21_Witness ==
  /\ ScriptsDone
  /\ \E k \in helper.raised : \E l \in helper.delay_failed :
       /\ k < l
       /\ The(helper.ret).results[l].success
  /\ ~ The(helper.ret).success

(***************************************************************************)
(* The smart-wait stage inside one capture session (SpecCrawl).            *)
(***************************************************************************)
\* smart_wait raised its timeout error in this session
WaitTimedOut == history.wait = "PwTimeout"

\* C22: when the smart-wait stage times out, no later stage (iframes, MHTML,
\* screenshot, final HTML) runs, cleanup still runs, and crawl() returns a
\* navigation-class failure: a response of status 0 with a message.
C22_WaitTimeoutFailsRun ==
  /\ WaitTimedOut =>
       /\ pc \notin { "iframes", "mhtml", "screenshot", "finalize", "return" }
       /\ mhtml_data = "unbound"
       /\ screenshot_data = "None"
       /\ final_html = "unbound"
       /\ history.degraded \cap { "iframes", "mhtml", "screenshot" } = {}
  /\ ( CrawlEnded /\ WaitTimedOut /\ ~ history.close_failed ) =>
       /\ resources.page_closed = 1
       /\ resources.context_closed = 1
       /\ listeners = {}
       /\ exc = "none"
       /\ ret # None
       /\ FailedResponse(The(ret))
       /\ The(The(ret).js_execution_result).error # "None"

(***************************************************************************)
(* Properties of smart_wait (SpecHelpers).                                 *)
(***************************************************************************)
WaitDone == helper.kind = "wait" /\ helper.pc = "done"

\* the predicate was true at no evaluation
NeverTrue == \A k \in 1..Len(helper.polls) : helper.polls[k] # "true"

\* C23: with a `css:` prefix smart_wait only waits for the selector: it
\* returns when the element appears, raises the timeout error when the wait
\* times out, and raises ValueError (never the timeout error) when the page
\* rejects the selector.
C23_CssPrefixOutcomes ==
  (WaitDone /\ helper.branch = "css") =>
    /\ StartsWith(Strip(helper.wait_for), "css:")
    /\ helper.attempts = << "selector" >>
    /\ helper.selector = "found" => helper.outcome = "returned"
    /\ helper.selector = "PwTimeout" => helper.outcome = "PwTimeout"
    /\ helper.selector = "Error" => helper.outcome = "ValueError"

\* a `css:` wait whose selector the page rejected ended in ValueError
C23_Witness ==
  /\ WaitDone
  /\ helper.branch = "css"
  /\ helper.selector = "Error"
  /\ helper.outcome = "ValueError"

\* the string has neither the `js:` nor the `css:` prefix
Unprefixed ==
  /\ ~ StartsWith(Strip(helper.wait_for), "js:")
  /\ ~ StartsWith(Strip(helper.wait_for), "css:")

\* the string was first tried as a selector, and as a function body only
\* after the page rejected the selector
SelectorFirst ==
  /\ helper.attempts \in { << "selector" >>, << "selector", "predicate" >> }
  /\ (Len(helper.attempts) = 2) = (helper.selector = "Error")
  /\ Len(helper.attempts) = 2 =>
       helper.as_body /\ helper.expr = Strip(helper.wait_for)

\* C24 (as stated): every string without prefix is first tried as a CSS
\* selector, and retried as the body of a zero-argument function only when
\* that attempt failed with a page-level error other than a timeout.
C24_SelectorFirstAlways ==
  (WaitDone /\ Unprefixed) => SelectorFirst

\* C24 (amended): a string without prefix that begins with `()` or
\* `function` is polled as a predicate and never tried as a selector; every
\* other string without prefix is first tried as a CSS selector and retried
\* as a function body only after a page-level error other than a timeout.
C24_SelectorFirstUnlessFunction ==
  (WaitDone /\ Unprefixed) =>
    IF StartsWith(Strip(helper.wait_for), "()")
         \/ StartsWith(Strip(helper.wait_for), "function")
      THEN helper.attempts = << "predicate" >>
      ELSE SelectorFirst

\* an unprefixed string was rejected as a selector and then polled as a
\* function body until it was true
C24_Witness ==
  /\ WaitDone
  /\ helper.branch = "fallback"
  /\ helper.attempts = << "selector", "predicate" >>
  /\ helper.outcome = "returned"

\* C25: with a `js:` prefix the predicate is polled with one 100 ms pause
\* between consecutive polls and none before the first; a predicate true
\* at its first evaluation makes the call return without a pause for
\* every timeout, 0 included; the call returns only on a true poll, and a
\* predicate that is never true ends in the timeout error, which is not
\* raised by the clock before the timeout has elapsed.
C25_JsPrefixPolls ==
  (helper.kind = "wait" /\ helper.branch = "js") =>
    /\ helper.pc = "poll" => helper.pauses = Len(helper.polls)
    /\ helper.pc = "pause" => helper.pauses = Len(helper.polls) - 1
    /\ helper.elapsed >= helper.pauses
    /\ WaitDone =>
         /\ helper.attempts = << "predicate" >>
         /\ helper.polls # << >>
         /\ helper.pauses = Len(helper.polls) - 1
         /\ helper.polls[1] = "true" =>
              helper.outcome = "returned" /\ helper.pauses = 0
         /\ helper.outcome = "returned" =>
              helper.polls[Len(helper.polls)] = "true"
         /\ NeverTrue => helper.outcome = "PwTimeout"
         /\ helper.expired => helper.elapsed > helper.timeout

\* `js:` with timeout 0 and a predicate true at once: returned, no pause
C25_Witness ==
  /\ WaitDone
  /\ helper.branch = "js"
  /\ helper.timeout = 0
  /\ helper.polls = << "true" >>
  /\ helper.pauses = 0
  /\ helper.outcome = "returned"

\* C26: in every branch of smart_wait a wait that ran out of time ends in
\* the timeout error, not in ValueError.
C26_TimeoutIsTimeoutError ==
  (WaitDone /\ helper.expired) => helper.outcome = "PwTimeout"

\* the wait_for expression was invalid: a predicate that is not valid code
\* or that throws, or a selector the page rejects
InvalidExpression ==
  \/ /\ helper.branch \in {"js", "fn"}
     /\ helper.polls # << >>
     /\ helper.polls[Len(helper.polls)] \in {"invalid", "throws"}
  \/ /\ helper.branch = "css"
     /\ helper.selector = "Error"

\* C27: an invalid wait_for expression ends in ValueError and never in the
\* timeout error.
C27_InvalidIsValueError ==
  (WaitDone /\ InvalidExpression) => helper.outcome = "ValueError"

(***************************************************************************)
(* The recoverable stages inside one capture session (SpecCrawl).          *)
(***************************************************************************)
\* the stages that are to absorb their own failures
RecoverableStages == { "overlay", "iframes", "mhtml", "screenshot" }

\* a recoverable stage failed, absorbed by the stage or not
RecoverableStageFailed ==
  \/ history.degraded \cap RecoverableStages # {}
  \/ history.raised_in \in RecoverableStages

\* C28: a failure inside a recoverable stage (overlay removal, iframe
\* processing with the listing of the iframes, MHTML capture, screenshot
\* with the measuring of the page) is absorbed by the stage: it does not
\* leave the stage as an exception, and a response that crawl() returns
\* carries the final HTML and the navigation response's status.
C28_StageFailureAbsorbed ==
  ( /\ CrawlEnded
    /\ ~ history.close_failed
    /\ history.nav = "response"
    /\ history.wait \in {"none", "ok"}
    /\ RecoverableStageFailed )
  => /\ history.raised_in \notin RecoverableStages
     /\ exc = "none" =>
          /\ ret # None
          /\ The(ret).html = final_html
          /\ The(ret).status_code = The(response)

(***************************************************************************)
(* Properties of process_iframes and take_screenshot (SpecHelpers).        *)
(***************************************************************************)
\* C29: once the iframes are listed, process_iframes attempts every iframe
\* exactly once, in index order, whatever happens to the iframes before
\* it (timeout, no content frame, Playwright error, any other exception),
\* and returns the page; it raises at no point of the loop.
C29_EveryIframeAttempted ==
  helper.kind = "iframes" =>
    /\ helper.pc = "raised" => helper.attempted = << >>
    /\ helper.pc \in {"loop", "return"} =>
         /\ Len(helper.attempted) = helper.i
         /\ \A k \in 1..Len(helper.attempted) : helper.attempted[k] = k - 1
    /\ helper.pc = "returned" =>
         /\ helper.ret = "page"
         /\ Len(helper.attempted) = helper.n
         /\ \A k \in 1..helper.n : helper.attempted[k] = k - 1
         /\ helper.replaced =
              { k - 1 : k \in { j \in 1..helper.n :
                                  helper.outcomes[j] = "replaced" } }

\* every kind of failure hit an iframe and a later iframe was replaced
C29_Witness ==
  /\ helper.kind = "iframes"
  /\ helper.pc = "returned"
  /\ helper.n = MaxIframes
  /\ helper.outcomes[1] \in {"PwTimeout", "Error", "Other"}
  /\ helper.outcomes[2] = "no_frame"
  /\ helper.outcomes[helper.n] = "replaced"

\* take_screenshot measured the page and went down a path
ShotTaken ==
  /\ helper.kind = "shot"
  /\ helper.attempted # << >>
  /\ helper.pc \in {"returned", "raised"}

\* C30: the path of take_screenshot depends on the measured height h and
\* the threshold t alone: for h <= t the native whole-page capture is
\* attempted first, the viewport capture only after the native one failed
\* with a Playwright error, and the segmented path never; for h > t the
\* segmented path is the only one attempted.
C30_PathFromHeightAndThreshold ==
  ShotTaken =>
    /\ helper.page_height = helper.height
    /\ IF helper.page_height <= helper.threshold
         THEN /\ helper.attempted \in { << "native" >>,
                                        << "native", "naive" >> }
              /\ (helper.attempted = << "native", "naive" >>)
                   = (helper.native = "Error" /\ helper.pc = "returned")
              /\ helper.native = "ok" => helper.ret = "full_page"
         ELSE /\ helper.attempted = << "scroller" >>
              /\ helper.native = "none"
              /\ helper.ret \in {"stitched", "placeholder"}

\* a page exactly as high as the threshold: the native capture failed and
\* the viewport capture was used
C30_Witness ==
  /\ ShotTaken
  /\ helper.page_height = helper.threshold
  /\ helper.threshold > 0
  /\ helper.attempted = << "native", "naive" >>
  /\ helper.ret = "viewport"

(***************************************************************************)
(* Properties of take_screenshot_scroller (SpecHelpers).                   *)
(***************************************************************************)
Stitched ==
  helper.kind = "scroller" /\ helper.pc = "returned" /\ helper.ret = "stitched"

\* C31: in the segmented path with page height H > 0 and viewport height
\* V > 0 exactly ceil(H / V) segments are captured, at offsets 0, V, 2V, ...;
\* segment k is pasted at the running offset (k-1)V cropped to
\* min(V, H - offset); the pasted heights sum to H, only the last segment is
\* cropped, and the stitched image is H high.  Without a failure the
\* placeholder is returned only for H = 0 or V = 0.
C31_SegmentsCoverPage ==
  /\ Stitched =>
       LET H == helper.page_height
           V == helper.viewport_height
           n == Len(helper.segments)
       IN /\ H > 0 /\ V > 0
          /\ (n - 1) * V < H /\ H <= n * V
          /\ Len(helper.y_offsets) = n /\ Len(helper.pasted) = n
          /\ \A k \in 1..n :
               /\ helper.y_offsets[k] = (k - 1) * V
               /\ helper.pasted[k].at = (k - 1) * V
               /\ helper.pasted[k].height =
                    (IF V <= H - (k - 1) * V THEN V ELSE H - (k - 1) * V)
               /\ k < n => helper.pasted[k].height = V
               /\ helper.pasted[k].height > 0
          /\ helper.offset = H
          /\ helper.stitched_height = H
  /\ ( /\ helper.kind = "scroller"
       /\ helper.pc = "returned"
       /\ helper.ret = "placeholder"
       /\ ~ helper.raised )
     => helper.height = 0 \/ helper.viewport = 0

\* a page of height 5 under a viewport of height 2: three segments, the
\* last one cropped to one row
C31_Witness ==
  /\ Stitched
  /\ helper.page_height = 5
  /\ helper.viewport_height = 2
  /\ Len(helper.pasted) = 3
  /\ helper.pasted[3].height = 1

(***************************************************************************)
(* Finalization inside one capture session (SpecCrawlHttps).               *)
(***************************************************************************)
\* lines 690-705 have run
Finalized == final_html # "unbound"

\* reading the content raised (696)
ContentUnreadable == "finalize" \in history.degraded

\* the response crawl() returns from line 739 carries the final values
ReturnCarriesFinalValues ==
  ( Finalized /\ ret # None /\ history.raised_in = "none" )
  => /\ The(ret).html = final_html
     /\ The(ret).status_code = final_status_code

RECURSIVE Significant(_, _)
Significant(f, above) ==
  IF f = << >> THEN << >>
  ELSE (IF Head(f).name \in SignificantTags
          THEN << [tag |-> Head(f), above |-> above] >> ELSE << >>)
       \o Significant(Head(f).kids, above \cup {Head(f).name})
       \o Significant(Tail(f), above)

\* the elements the filter is asked to rank: significant, with enough words
Wordy(f) ==
  SelectSeq(Significant(f, {}),
            LAMBDA c : WordsOf(TextLen(<< c.tag >>)) >= MinWordCount)

\* a call of the lexical filter that got as far as ranking its candidates
Ranked(k) ==
  /\ filter.kind = "bm25"
  /\ k \in 1..Len(filter.outs)
  /\ filter.html.kind = "markup"
  /\ filter.user_query # "None"
  /\ Wordy(filter.html.nodes) # << >>

\* C33: BM25ContentFilter.filter_content returns exactly the candidate chunks
\* whose score is at or above the threshold, a score equal to the threshold
\* included, each once and in the order of the document, whatever the scores.
C33_KeptAtOrAboveThreshold ==
  \A k \in 1..Len(filter.outs) :
    Ranked(k) =>
      LET cands == Wordy(filter.html.nodes)
          kept  == SelectSeq(cands,
                     LAMBDA c : ~ (filter.scores[c.tag.text]
                                     < filter.threshold))
      IN  /\ filter.outs[k].raised = "none"
          /\ filter.outs[k].out = [j \in 1..Len(kept) |-> kept[j].tag]

\* a ranked call that kept two chunks, the first one scoring exactly the
\* threshold and less than the second
C33_Witness ==
  /\ Ranked(1)
  /\ Len(filter.outs[1].out) = 2
  /\ filter.scores[filter.outs[1].out[1].text] = filter.threshold
  /\ filter.scores[filter.outs[1].out[2].text] > filter.threshold

\* C34: the lexical-relevance filter never returns a chunk that lies under an
\* excluded tag (a paragraph nested in a nav element is no candidate), nor a
\* chunk with fewer words than the minimum word count.
C34_NoChunkUnderExcludedTag ==
  \A k \in 1..Len(filter.outs) :
    Ranked(k) =>
      LET allowed == SelectSeq(Wordy(filter.html.nodes),
                       LAMBDA c : c.above \cap ExcludedTags = {})
      IN  /\ Len(filter.outs[k].out) <= Len(allowed)
          /\ \A j \in 1..Len(filter.outs[k].out) :
               /\ \E i \in 1..Len(allowed) :
                    allowed[i].tag = filter.outs[k].out[j]
               /\ WordsOf(TextLen(<< filter.outs[k].out[j] >>))
                    >= MinWordCount

(***************************************************************************)
(* Properties of the structural pruning (SpecFilter).                      *)
(***************************************************************************)
\* every element of the forest, at any depth, scores at or above the
\* threshold with the children it has
RECURSIVE AllAtOrAbove(_, _, _)
AllAtOrAbove(f, threshold, weights) ==
  \/ f = << >>
  \/ /\ ~ ScoreBelow(Head(f), threshold, weights)
     /\ AllAtOrAbove(Head(f).kids, threshold, weights)
     /\ AllAtOrAbove(Tail(f), threshold, weights)

\* `out` is what is left of forest f, in the order of f, after some elements
\* were removed with their subtrees
RECURSIVE LeftOf(_, _)
LeftOf(out, f) ==
  \/ out = << >>
  \/ /\ f # << >>
     /\ \/ /\ Head(out).name = Head(f).name
           /\ Head(out).text = Head(f).text
           /\ LeftOf(Head(out).kids, Head(f).kids)
           /\ LeftOf(Tail(out), Tail(f))
        \/ LeftOf(out, Tail(f))

\* a call of the pruning filter on markup that returned
Pruned(k) ==
  /\ filter.kind = "pruning"
  /\ k \in 1..Len(filter.outs)
  /\ filter.html.kind = "markup"
  /\ filter.outs[k].raised = "none"

\* C35: structural pruning is bottom-up: an element is scored with the
\* children that survived their own visit and is removed with its whole
\* subtree when it scores below the threshold, so every element of the
\* output, at any depth, scores at or above the threshold as it stands; the
\* output is what is left of the direct children of the body, in document
\* order.
C35_PruningBottomUp ==
  \A k \in 1..Len(filter.outs) :
    Pruned(k) =>
      LET out == filter.outs[k].out IN
      /\ AllAtOrAbove(out, filter.threshold, filter.tag_weights)
      /\ LeftOf(out, RemoveExcluded(filter.html.nodes))
      /\ ~ ScoreBelow([name |-> "body", text |-> 0, kids |-> out],
                      filter.threshold, filter.tag_weights)

\* a returned call that removed an element together with a child scoring at
\* or above the threshold, and kept the element after it
C35_Witness ==
  /\ Pruned(1)
  /\ Len(filter.html.nodes) = 2
  /\ filter.html.nodes[1].name \notin ExcludedTags
  /\ filter.html.nodes[1].kids # << >>
  /\ ~ ScoreBelow(filter.html.nodes[1].kids[1], filter.threshold,
                  filter.tag_weights)
  /\ filter.outs[1].out = << filter.html.nodes[2] >>

(***************************************************************************)
(* Several BrowserManager instances, one per task, each owned by its own   *)
(* crawler and strategy: start(), close() and the opening of a capture     *)
(* session (async_crawler_strategy.py 553-554) on any of them.             *)
(***************************************************************************)
\* calls begun on the instances in one run
MaxSharedCalls == 2

SharedOps == {"start", "close", "session"}

\* (variant of InstanceDict) an __init__ that gives every instance handles
\* of its own, unset
InstanceDictWithHandles(t) == {"_playwright_instance", "_browser_instance"}

\* browser_manager.py 9-10: __init__ assigns browser_config only, and start
\* and close assign on the class: no instance has an attribute of its own
\* named like a handle
InstanceDict(t) == {}

\* attribute lookup through instance t: the instance's own attribute when it
\* has one, the class attribute otherwise
EngineSeenBy(t) ==
  IF "_playwright_instance" \in InstanceDict(t)
    THEN 0 ELSE bm.playwright_instance
BrowserSeenBy(t) ==
  IF "_browser_instance" \in InstanceDict(t)
    THEN 0 ELSE bm.browser_instance

\* a call of start(), close() or crawl() on instance t
SharedCall(t, op) ==
  /\ bm.task[t].pc = "idle"
  /\ bm.calls < MaxSharedCalls
  /\ bm' = [bm EXCEPT !.calls = @ + 1,
                      !.closes = IF op = "close" THEN @ + 1 ELSE @,
                      !.task[t] = [op |-> op, pc |-> FirstPc(op), tmp |-> 0,
                                   pre |-> Snapshot]]
  /\ UNCHANGED << crawlVars, many, extra >>

BeginSharedCall == \E t \in Tasks, op \in SharedOps : SharedCall(t, op)

\* async_crawler_strategy.py 553:
\* self.browser_manager._browser_instance.new_context(...).  None has no
\* new_context (AttributeError); a browser that was closed refuses.
SessionContext(t) ==
  /\ bm.task[t].pc = "n1"
  /\ IF BrowserSeenBy(t) \in BrowserIds
       THEN bm' = [bm EXCEPT !.task[t].tmp = BrowserSeenBy(t),
                             !.task[t].pc = "n2"]
       ELSE bm' = [bm EXCEPT !.task[t].pc = "raised"]
  /\ UNCHANGED << crawlVars, many, extra >>

\* line 554: context.new_page(), on the browser the context belongs to
SessionPage(t) ==
  /\ bm.task[t].pc = "n2"
  /\ bm' = [bm EXCEPT !.task[t].pc =
              IF bm.task[t].tmp \in BrowserIds THEN "ret" ELSE "raised"]
  /\ UNCHANGED << crawlVars, many, extra >>

SharedStep ==
  \E t \in Tasks :
    \/ StartEngine(t) \/ EngineStarted(t) \/ LaunchBrowser(t)
    \/ BrowserLaunched(t) \/ CloseBrowser(t) \/ BrowserClosed(t)
    \/ StopEngine(t) \/ EngineStopped(t) \/ CallEnds(t)
    \/ SessionContext(t) \/ SessionPage(t)

\* nothing started yet, or one engine and one browser running
InitBMShared ==
  /\ NoSession
  /\ check_robots_txt = "missing"
  /\ bm \in {BMInit, BMStarted}
  /\ many = ManyIdle
  /\ strategy = StrategyIdle
  /\ filter = FilterIdle
  /\ helper = HelperIdle

NextBMShared == BeginSharedCall \/ SharedStep

SpecBMShared == InitBMShared /\ [][NextBMShared]_vars

(***************************************************************************)
(* Properties of the shared handles (SpecBMShared).                        *)
(***************************************************************************)
\* instance t has a capture session in flight
SessionInFlight(t) ==
  bm.task[t].op = "session" /\ bm.task[t].pc \in {"n1", "n2"}

\* what the step of instance t does to the handles every instance sees
HandlesStep(t) ==
  /\ ( bm.task[t].pc = "s1w" /\ bm'.task[t].pc # "s1w" )
       => \A u \in Tasks : EngineSeenBy(u)' = bm.task[t].tmp
  /\ ( bm.task[t].pc = "s2w" /\ bm'.task[t].pc # "s2w" )
       => \A u \in Tasks : BrowserSeenBy(u)' = bm.task[t].tmp
  /\ ( bm.task[t].pc = "c1w" /\ bm'.task[t].pc # "c1w" )
       => \A u \in Tasks : BrowserSeenBy(u)' = 0
  /\ ( bm.task[t].pc = "c2w" /\ bm'.task[t].pc # "c2w" )
       => \A u \in Tasks : EngineSeenBy(u)' = 0
  /\ ( bm.task[t].pc = "n1" /\ bm'.task[t].pc = "n2" )
       => /\ bm'.task[t].tmp = bm.browser_instance
          /\ bm.browser_instance # 0

\* C36: the browser and engine handles are process-wide: at any moment all
\* BrowserManager instances see the same handles; the handle a start() on
\* one instance assigns is the one every instance sees, a session opened on
\* any instance uses that browser, and a close() on one instance clears the
\* handles every instance sees, those with a session in flight included.
C36_HandlesShared ==
  [][ /\ \A t, u \in Tasks : /\ BrowserSeenBy(t) = BrowserSeenBy(u)
                             /\ EngineSeenBy(t) = EngineSeenBy(u)
      /\ \A t \in Tasks : HandlesStep(t) ]_vars

\* an instance has a session in flight on the shared browser while close()
\* on another instance has closed that browser and cleared the handle the
\* session's instance sees
C36_Witness ==
  \E t, u \in Tasks :
    /\ t # u
    /\ SessionInFlight(t)
    /\ bm.task[t].pc = "n2"
    /\ bm.task[t].tmp # 0
    /\ bm.task[u].op = "close"
    /\ bm.task[u].pc = "c2"
    /\ BrowserSeenBy(t) = 0
    /\ bm.task[t].tmp \notin BrowserIds

(***************************************************************************)
(* Properties of the download latch of one session (SpecCrawlHttps).       *)
(***************************************************************************)
\* the download handlers of the session that have finished
HandlersFinished == downloads.started - downloads.inflight

\* C37: the download-completion latch of a session is set once a download
\* handler has finished, whether the file was saved or not, and never
\* before; the downloaded-files list holds at most one path per finished
\* handler (possibly none while the latch is set), and the wait on the latch
\* ends in time whenever a handler has finished, timing out only when none
\* had.
C37_LatchFollowsHandler ==
  /\ download_completed_event <=> HandlersFinished > 0
  /\ Len(downloaded_files) <= HandlersFinished
  /\ history.dl_wait = "ok" => HandlersFinished > 0
  /\ history.dl_wait = "timeout" => HandlersFinished = 0

\* the wait on the latch ended because the handler of a download that could
\* not be saved had finished: the latch is set and no file is listed
C37_Witness ==
  /\ history.dl_wait = "ok"
  /\ download_completed_event
  /\ downloads.started = 1
  /\ downloads.inflight = 0
  /\ downloaded_files = << >>

(***************************************************************************)
(* Properties of the full-page scan (SpecHelpersFair).                     *)
(***************************************************************************)
\* the scan loop was left by its test or its break
ScanLoopLeft ==
  /\ helper.kind = "scan"
  /\ \/ helper.pc = "back"
     \/ helper.pc = "done" /\ helper.raised = "none"

ScanOver == helper.kind = "scan" /\ helper.pc = "done"

ScanSafe ==
  /\ ScanLoopLeft =>
       /\ helper.current_position = helper.total_height
       /\ helper.total_height = helper.measured.top
  /\ ( ScanOver /\ helper.raised = "none" ) => helper.scroll_y = 0
  /\ ScanOver => helper.ret = "returned"
  /\ ( helper.kind = "scan" /\ helper.ret = "returned" ) => ScanOver

\* C38: with a positive viewport height (and a page that stops growing, here
\* at MaxScanHeight at the latest) the full-page scan always ends; when its
\* loop is left the position reached equals the total height, the largest
\* height measured; the page is then scrolled back to offset 0; and a
\* failure during the scan ends it with a plain return, never an exception.
C38_ScanTerminates ==
  /\ [] ScanSafe
  /\ ( helper.kind = "scan" /\ helper.viewport_height > 0 ) ~> ScanOver

\* a scan over a page that grew after the first scroll ended without a
\* failure after scrolling more than once: position and total height agree
\* and the page is back at the top
C38_Witness ==
  /\ ScanOver
  /\ helper.raised = "none"
  /\ helper.viewport_height > 0
  /\ helper.measured.first > 0
  /\ helper.total_height > helper.measured.first
  /\ helper.total_height > helper.viewport_height
  /\ helper.current_position = helper.total_height
  /\ helper.scroll_y = 0

(***************************************************************************)
(* A further property of arun_many (SpecMany).                             *)
(***************************************************************************)
\* C39: every CrawlResult of the list arun_many returns carries, in its url
\* field, the input URL of the same position, the results of failed and of
\* crashed sessions included.
C39_ResultUrlIsInputUrl ==
  many.pc = "done" =>
    /\ Len(many.final_results) = Len(many.urls)
    /\ \A i \in 1..Len(many.urls) : many.final_results[i].url = many.urls[i]
====
